---- MODULE Spec2Model ----
(***************************************************************************)
(* The upgrade engine of create-velocity-astro (src/src/upgrade.ts,        *)
(* src/src/utils/diff.ts, src/src/utils/velocity-config.ts and the prompt  *)
(* helpers of upgrade-prompts.ts) as a state machine.                      *)
(*                                                                         *)
(* A file tree is a function from FileUniverse to contents, 0 meaning that *)
(* the file is absent; a directory exists when a file lies beneath it.     *)
(* package.json and .velocity.json are kept apart from the tree, as parsed *)
(* records.  A path is a sequence of names; a version string is the        *)
(* sequence of its segments, NonNumeric standing for a segment that        *)
(* parseInt cannot read.                                                   *)
(***************************************************************************)
EXTENDS Integers, Sequences, FiniteSets, TLC

VARIABLES
    pc,          \* position of the run inside upgrade()
    yes,         \* options.yes
    dryRun,      \* options.dryRun
    proj,        \* files of the project tree (targetDir)
    pkg,         \* targetDir/package.json
    cfgFile,     \* targetDir/.velocity.json
    config,      \* upgrade's local `config`, read once at line 203
    tmpl,        \* the template the download materialises
    dl,          \* outcome of downloadTemplate in this run
    tmpCreated,  \* this run created its tempDir
    tmpExists,   \* this run's tempDir exists on disk
    rmFailed,    \* rmSync threw inside cleanup in this run
    manifest,    \* upgrade's local `manifest`
    classified,  \* diffProjects ran in this run
    diffs,       \* upgrade's local `diffs`
    ci,          \* index of the next entry of changedDiffs to copy
    matchResults,\* what the run handed to showManualSteps
    scanned,     \* scanForMigrationPatterns returned in this run
    exitCode,    \* -1 while running, then the process exit code
    outcome,     \* which exit path the run took
    start,       \* project state when this run began
    orig,        \* project state when the first run began
    runs,        \* number of runs started so far
    prevOutcome, \* how the previous run ended
    input,       \* arguments of a function applied on its own
    output,      \* what that function returned
    now,         \* Date.now(), in milliseconds
    tempDir,     \* `tempDir` of each of two upgrade processes run side by side
    ppc,         \* position of each of the two processes
    tmpfs,       \* os.tmpdir(): whose files each velocity-upgrade-* holds
    wrote        \* the downloadTemplate call of each process has written

parVars == <<now, tempDir, ppc, tmpfs, wrote>>

vars == <<pc, yes, dryRun, proj, pkg, cfgFile, config, tmpl, dl, tmpCreated,
          tmpExists, rmFailed, manifest, classified, diffs, ci, matchResults, scanned,
          exitCode, outcome, start, orig, runs, prevOutcome, input, output, parVars>>

----------------------------------------------------------------------------
(* Bounds *)

\* file contents are 1..MaxContent; 1 is the bytes the template ships
MaxContent == 2
\* the content of a file whose write was cut short
Truncated == -1
\* number of consecutive upgrade runs against the same template
MaxRuns == 2

\* the longest list of path entries a manifest of the diff calls declares
MaxEntries == 2

\* the longest diff list summarizeDiffs is called with
MaxDiffs == 3

\* the highest version a dependency entry of the merge calls carries
MaxDepVersion == 2

\* the highest number in a segment, and the most segments, of the versions
\* isVersionLessThan is called with
MaxSegment == 1
MaxSegments == 2

\* the most search paths a migration step of the scan calls declares
MaxSearchPaths == 2

\* the milliseconds that pass while two upgrade processes run side by side
MaxClock == 2

----------------------------------------------------------------------------
(* Paths and trees *)

LibDir == <<"src", "lib">>
AFile == <<"src", "lib", "a.ts">>
SubFile == <<"src", "lib", "sub", "c.ts">>
ModFile == <<"src", "node_modules", "m.js">>
TsConfig == <<"tsconfig.json">>
PackageJson == <<"package.json">>
VelocityJson == <<".velocity.json">>

\* the regular files of the model, in readdir (depth-first) order
FileOrder == <<AFile, SubFile, ModFile, TsConfig>>
FileUniverse == {FileOrder[i] : i \in 1..Len(FileOrder)}

Trees(contents) == [FileUniverse -> contents]

\* the trees the upgrade runs meet: files at AFile and TsConfig only
MainFiles == {AFile, TsConfig}
\* the trees with files at `files` only
TreesOver(files, contents) ==
    {[f \in FileUniverse |-> IF f \in files THEN t[f] ELSE 0] :
        t \in [files -> contents]}

MainTrees(contents) == TreesOver(MainFiles, contents)

SeqsUpTo(S, n) == UNION {[1..k -> S] : k \in 0..n}

IsPrefix(d, f) == Len(d) <= Len(f) /\ SubSeq(f, 1, Len(d)) = d

IsFile(tree, path) == path \in FileUniverse /\ tree[path] # 0
IsDirectory(tree, path) ==
    \E f \in FileUniverse : tree[f] # 0 /\ Len(path) < Len(f) /\ IsPrefix(path, f)
existsSync(tree, path) == IsFile(tree, path) \/ IsDirectory(tree, path)

\* a declared path entry: the path and whether it is written with a trailing "/"
Entry(path, slash) == [path |-> path, slash |-> slash]

RECURSIVE Dedup(_)
Dedup(s) ==
    IF s = <<>> THEN <<>>
    ELSE LET init == Dedup(SubSeq(s, 1, Len(s) - 1))
             last == s[Len(s)]
         IN IF \E i \in 1..Len(init) : init[i] = last THEN init
            ELSE Append(init, last)

----------------------------------------------------------------------------
(* utils/diff.ts *)

walkDir(tree, dir) ==
    SelectSeq(FileOrder, LAMBDA f : tree[f] # 0 /\ Len(dir) < Len(f) /\ IsPrefix(dir, f))

\* a plausible slip: only the trailing separator marks a directory, the
\* statSync test of line 34 is left out
RECURSIVE expandAllBySlash(_, _)
expandAllBySlash(paths, freshDir) ==
    IF paths = <<>> THEN <<>>
    ELSE LET p == Head(paths)
         IN (IF p.slash THEN walkDir(freshDir, p.path) ELSE <<p.path>>)
                \o expandAllBySlash(Tail(paths), freshDir)

RECURSIVE expandAll(_, _)
expandAll(paths, freshDir) ==
    IF paths = <<>> THEN <<>>
    ELSE LET p == Head(paths)
         IN (IF p.slash \/ IsDirectory(freshDir, p.path)
             THEN walkDir(freshDir, p.path)
             ELSE <<p.path>>) \o expandAll(Tail(paths), freshDir)

expandPaths(paths, freshDir) == Dedup(expandAll(paths, freshDir))

FileDiff(path, status) == [path |-> path, status |-> status, category |-> "safe"]

\* a plausible slip: no content comparison, a file present in both trees
\* counts as unchanged
RECURSIVE diffFilesByPresence(_, _, _)
diffFilesByPresence(currentDir, freshDir, safeFiles) ==
    IF safeFiles = <<>> THEN <<>>
    ELSE LET filePath == Head(safeFiles)
             rest == diffFilesByPresence(currentDir, freshDir, Tail(safeFiles))
         IN IF ~existsSync(freshDir, filePath) THEN rest
            ELSE IF ~existsSync(currentDir, filePath)
                 THEN <<FileDiff(filePath, "added")>> \o rest
            ELSE <<FileDiff(filePath, "unchanged")>> \o rest

RECURSIVE diffFiles(_, _, _)
diffFiles(currentDir, freshDir, safeFiles) ==
    IF safeFiles = <<>> THEN <<>>
    ELSE LET filePath == Head(safeFiles)
             rest == diffFiles(currentDir, freshDir, Tail(safeFiles))
         IN IF ~existsSync(freshDir, filePath) THEN rest
            ELSE IF ~existsSync(currentDir, filePath)
                 THEN <<FileDiff(filePath, "added")>> \o rest
            ELSE IF currentDir[filePath] = freshDir[filePath]
                 THEN <<FileDiff(filePath, "unchanged")>> \o rest
            ELSE <<FileDiff(filePath, "modified")>> \o rest

\* a plausible slip: every file of the fresh tree is diffed, not the
\* expansion of manifest.files.safe
diffProjectsWholeTree(currentDir, freshDir, m) ==
    diffFiles(currentDir, freshDir, walkDir(freshDir, <<>>))

diffProjects(currentDir, freshDir, m) ==
    diffFiles(currentDir, freshDir, expandPaths(m.files.safe, freshDir))

\* a plausible slip: only the entries of category safe are counted
countDiffSafeOnly(summary, d) ==
    IF d.category # "safe" THEN summary
    ELSE IF d.status = "added" THEN [summary EXCEPT !.added = @ + 1]
    ELSE IF d.status = "modified" THEN [summary EXCEPT !.modified = @ + 1]
    ELSE IF d.status = "unchanged" THEN [summary EXCEPT !.unchanged = @ + 1]
    ELSE summary

\* one turn of the loop of lines 90-104: the switch on diff.status
countDiff(summary, d) ==
    IF d.status = "added" THEN [summary EXCEPT !.added = @ + 1]
    ELSE IF d.status = "modified" THEN [summary EXCEPT !.modified = @ + 1]
    ELSE IF d.status = "unchanged" THEN [summary EXCEPT !.unchanged = @ + 1]
    ELSE summary

RECURSIVE summarizeFrom(_, _)
summarizeFrom(summary, ds) ==
    IF ds = <<>> THEN summary
    ELSE summarizeFrom(countDiff(summary, Head(ds)), Tail(ds))

summarizeDiffs(ds) ==
    summarizeFrom([added |-> 0, modified |-> 0, unchanged |-> 0], ds)

----------------------------------------------------------------------------
(* upgrade.ts: constants *)

\* a version segment parseInt reads as NaN (for example "beta")
NonNumeric == -1

CLI_VERSION == <<1, 6, 0>>

FALLBACK_SAFE_FILES ==
    << Entry(<<"src", "components", "ui">>, TRUE),
       Entry(<<"src", "components", "seo">>, TRUE),
       Entry(<<"src", "components", "layout">>, TRUE),
       Entry(<<"src", "layouts">>, TRUE),
       Entry(<<"src", "lib">>, TRUE),
       Entry(<<"src", "styles", "tokens">>, TRUE),
       Entry(<<"src", "styles", "global.css">>, FALSE),
       Entry(<<"src", "content.config.ts">>, FALSE),
       Entry(<<"tsconfig.json">>, FALSE),
       Entry(<<"eslint.config.js">>, FALSE),
       Entry(<<".prettierrc">>, FALSE),
       Entry(<<".prettierignore">>, FALSE) >>

----------------------------------------------------------------------------
(* upgrade.ts: isVersionLessThan *)

\* the `parse` closure: every segment through parseInt, NaN coerced to 0
parse(v) == [i \in 1..Len(v) |-> IF v[i] < 0 THEN 0 ELSE v[i]]

At(a, i) == IF i <= Len(a) THEN a[i] ELSE 0

\* a plausible slip: line 75 left out, a greater component does not end
\* the loop
RECURSIVE lessFromAnyBelow(_, _, _, _)
lessFromAnyBelow(a, b, i, len) ==
    IF i > len THEN FALSE
    ELSE IF At(a, i) < At(b, i) THEN TRUE
    ELSE lessFromAnyBelow(a, b, i + 1, len)

RECURSIVE lessFrom(_, _, _, _)
lessFrom(a, b, i, len) ==
    IF i > len THEN FALSE
    ELSE IF At(a, i) < At(b, i) THEN TRUE
    ELSE IF At(a, i) > At(b, i) THEN FALSE
    ELSE lessFrom(a, b, i + 1, len)

\* a plausible slip: Math.min for Math.max at line 69, the longer version
\* is cut instead of the shorter padded
isVersionLessThanUnpadded(current, required) ==
    LET a == parse(current)
        b == parse(required)
        len == IF Len(a) < Len(b) THEN Len(a) ELSE Len(b)
    IN lessFrom(a, b, 1, len)

isVersionLessThan(current, required) ==
    LET a == parse(current)
        b == parse(required)
        len == IF Len(a) > Len(b) THEN Len(a) ELSE Len(b)
    IN lessFrom(a, b, 1, len)

----------------------------------------------------------------------------
(* upgrade.ts: scanForMigrationPatterns, walkFiles *)

\* regular-expression sources the model's manifests use
NoPattern == ""
OldApiPattern == "oldApi\\("
BrokenPattern == "("

\* new RegExp(pattern) throws a SyntaxError on an unbalanced parenthesis
ValidRegex(pattern) == pattern # BrokenPattern

\* regex.test(content): content 2 is the one that holds a call of oldApi(
Matches(pattern, content) == pattern = OldApiPattern /\ content = 2

SkippedDir(name) == name \in {"node_modules", ".git"}

\* a plausible slip: the test of line 143 left out, no directory is skipped
walkFilesNoSkip(tree, path) ==
    IF IsFile(tree, path) THEN <<path>>
    ELSE SelectSeq(FileOrder, LAMBDA f :
            tree[f] # 0 /\ Len(path) < Len(f) /\ IsPrefix(path, f))

\* walkFiles(join(targetDir, path)): the path itself when it is a file,
\* otherwise every file below it that no skipped directory lies above
walkFiles(tree, path) ==
    IF IsFile(tree, path) THEN <<path>>
    ELSE SelectSeq(FileOrder, LAMBDA f :
            /\ tree[f] # 0
            /\ Len(path) < Len(f)
            /\ IsPrefix(path, f)
            /\ \A k \in (Len(path) + 1)..(Len(f) - 1) : ~SkippedDir(f[k]))

RECURSIVE scanPaths(_, _, _)
scanPaths(tree, pattern, searchPaths) ==
    IF searchPaths = <<>> THEN <<>>
    ELSE SelectSeq(walkFiles(tree, Head(searchPaths)),
                   LAMBDA f : Matches(pattern, tree[f]))
         \o scanPaths(tree, pattern, Tail(searchPaths))

scanStep(tree, migration) ==
    IF migration.pattern = NoPattern THEN <<>>
    ELSE scanPaths(tree, migration.pattern,
                   IF Len(migration.searchPaths) > 0
                   THEN migration.searchPaths ELSE << <<"src">> >>)

\* the scan throws when some step's pattern does not compile
scanThrows(migrations) ==
    \E i \in 1..Len(migrations) :
        migrations[i].pattern # NoPattern /\ ~ValidRegex(migrations[i].pattern)

\* results.set(title, matches) on a Map kept as the sequence of its entries
\* in insertion order: a title already present keeps its place and gets
\* the new list
mapSet(results, title, matches) ==
    IF \E i \in 1..Len(results) : results[i].title = title
    THEN [i \in 1..Len(results) |->
             IF results[i].title = title
             THEN [title |-> title, matches |-> matches] ELSE results[i]]
    ELSE Append(results, [title |-> title, matches |-> matches])

RECURSIVE scanFrom(_, _, _)
scanFrom(results, tree, migrations) ==
    IF migrations = <<>> THEN results
    ELSE scanFrom(mapSet(results, Head(migrations).title,
                         scanStep(tree, Head(migrations))),
                  tree, Tail(migrations))

scanForMigrationPatterns(tree, migrations) == scanFrom(<<>>, tree, migrations)

----------------------------------------------------------------------------
(* upgrade.ts: mergePackageJsonDeps *)

Pkgs == {"astro", "left-pad"}

\* a dependency section maps every package to its version, 0 when the
\* section does not declare it; has* tells whether the section key exists
NoDeps == [n \in Pkgs |-> 0]

hasDepChanges(m) ==
    \/ \E n \in Pkgs : m.dependencies.update[n] # 0
    \/ m.dependencies.remove # {}
    \/ \E n \in Pkgs : m.dependencies.add[n] # 0

applyUpdate(p, update) ==
    LET inDeps(n) == p.hasDeps /\ p.deps[n] # 0
        inDev(n) == p.hasDev /\ p.dev[n] # 0
        toDeps == {n \in Pkgs : update[n] # 0 /\ (inDeps(n) \/ ~inDev(n))}
        toDev == {n \in Pkgs : update[n] # 0 /\ ~inDeps(n) /\ inDev(n)}
    IN [p EXCEPT
          !.hasDeps = p.hasDeps \/ toDeps # {},
          !.deps = [n \in Pkgs |-> IF n \in toDeps THEN update[n] ELSE p.deps[n]],
          !.dev = [n \in Pkgs |-> IF n \in toDev THEN update[n] ELSE p.dev[n]]]

applyRemove(p, remove) ==
    [p EXCEPT
       !.deps = [n \in Pkgs |-> IF n \in remove THEN 0 ELSE p.deps[n]],
       !.dev = [n \in Pkgs |-> IF n \in remove THEN 0 ELSE p.dev[n]]]

applyAdd(p, add) ==
    [p EXCEPT
       !.hasDeps = p.hasDeps \/ (\E n \in Pkgs : add[n] # 0),
       !.deps = [n \in Pkgs |-> IF add[n] # 0 THEN add[n] ELSE p.deps[n]]]

\* JSON.parse at line 162 throws on a malformed package.json
mergeThrows(p) == p.exists /\ ~p.valid

\* a plausible slip: the add loop of lines 186-189 placed before the
\* remove loop
mergePackageJsonDepsAddFirst(p, m) ==
    IF ~p.exists THEN p
    ELSE applyRemove(applyAdd(applyUpdate(p, m.dependencies.update),
                              m.dependencies.add),
                     m.dependencies.remove)

mergePackageJsonDeps(p, m) ==
    IF ~p.exists THEN p
    ELSE applyAdd(applyRemove(applyUpdate(p, m.dependencies.update),
                              m.dependencies.remove),
                  m.dependencies.add)

----------------------------------------------------------------------------
(* Inputs: the project, the options and the template the runs meet *)

V1 == <<1, 0, 0>>
V2 == <<2, 0, 0>>
\* no `version` field (or an empty one)
NoVersion == <<>>

\* the date `new Date().toISOString().slice(0, 10)` yields during the runs;
\* the project was created on day 0
Today == 1

Features == [demo |-> FALSE, i18n |-> FALSE, components |-> "all"]

\* .velocity.json: `json` is what JSON.parse makes of the file: the object
\* the CLI wrote, null, another value that `!config` takes for false
\* ("falsy": false, 0 or ""), or a SyntaxError ("malformed": an empty or
\* truncated file)
NoConfig ==
    [present |-> FALSE, json |-> "null", version |-> NoVersion, createdAt |-> 0,
     updatedAt |-> 0, features |-> Features]
InitialConfig ==
    [present |-> TRUE, json |-> "object", version |-> V1, createdAt |-> 0,
     updatedAt |-> 0, features |-> Features]
NullConfig == [NoConfig EXCEPT !.present = TRUE]
FalsyConfig == [NoConfig EXCEPT !.present = TRUE, !.json = "falsy"]
MalformedConfig == [NoConfig EXCEPT !.present = TRUE, !.json = "malformed"]
ConfigFiles ==
    {NoConfig, InitialConfig, NullConfig, FalsyConfig, MalformedConfig}

NoPackageJson ==
    [exists |-> FALSE, valid |-> FALSE, hasDeps |-> FALSE, deps |-> NoDeps,
     hasDev |-> FALSE, dev |-> NoDeps]
BadPackageJson == [NoPackageJson EXCEPT !.exists = TRUE]
GoodPackageJson ==
    [exists |-> TRUE, valid |-> TRUE,
     hasDeps |-> TRUE, deps |-> [NoDeps EXCEPT !["astro"] = 1],
     hasDev |-> TRUE, dev |-> [NoDeps EXCEPT !["left-pad"] = 1]]
\* a package.json with no dependencies section
DevOnlyPackageJson ==
    [exists |-> TRUE, valid |-> TRUE,
     hasDeps |-> FALSE, deps |-> NoDeps,
     hasDev |-> TRUE, dev |-> [NoDeps EXCEPT !["left-pad"] = 1]]
PackageJsons == {NoPackageJson, BadPackageJson, GoodPackageJson}

SafeLists ==
    { <<>>,
      <<Entry(LibDir, TRUE)>>,
      <<Entry(LibDir, FALSE), Entry(TsConfig, FALSE), Entry(LibDir, TRUE)>> }

ProtectedLists == { <<>>, <<PackageJson>> }

DepBlocks ==
    { [update |-> NoDeps, remove |-> {}, add |-> NoDeps],
      [update |-> [NoDeps EXCEPT !["astro"] = 2], remove |-> {}, add |-> NoDeps],
      [update |-> NoDeps, remove |-> {"left-pad"},
       add |-> [NoDeps EXCEPT !["left-pad"] = 2]] }

\* a block that updates and removes the same package
UpdateAndRemove ==
    [update |-> [NoDeps EXCEPT !["left-pad"] = 2], remove |-> {"left-pad"},
     add |-> NoDeps]

MigrationStep(title, pattern) ==
    [title |-> title, description |-> title, pattern |-> pattern,
     searchPaths |-> <<>>]

MigrationLists ==
    { <<>>,
      <<MigrationStep("Rename oldApi", OldApiPattern),
        MigrationStep("Read the changelog", NoPattern)>>,
      <<MigrationStep("Broken pattern", BrokenPattern)>> }

Manifests ==
    [version : {V1, V2},
     minCliVersion : {CLI_VERSION, V2},
     files : [safe : SafeLists, protected : ProtectedLists],
     dependencies : DepBlocks,
     migrations : MigrationLists]

\* the value of `manifest` before line 245 assigns it
NoManifest ==
    [version |-> NoVersion, minCliVersion |-> NoVersion,
     files |-> [safe |-> <<>>, protected |-> <<>>],
     dependencies |-> [update |-> NoDeps, remove |-> {}, add |-> NoDeps],
     migrations |-> <<>>]

\* the template ships its files with content 1, or lacks them
FreshTrees == MainTrees({0, 1})
NoTree == [f \in FileUniverse |-> 0]

\* a template: its velocity-manifest.json ("ok", "absent" or "malformed"),
\* the version of its package.json and its files
Templates ==
    [mstate : {"ok"}, manifest : Manifests, pkgValid : {TRUE},
     pkgVersion : {NoVersion}, tree : FreshTrees]
    \cup [mstate : {"absent"}, manifest : {NoManifest}, pkgValid : {TRUE},
          pkgVersion : {NoVersion, V2}, tree : FreshTrees]
    \cup [mstate : {"absent"}, manifest : {NoManifest}, pkgValid : {FALSE},
          pkgVersion : {NoVersion}, tree : {NoTree}]
    \cup [mstate : {"malformed"}, manifest : {NoManifest}, pkgValid : {TRUE},
          pkgVersion : {NoVersion}, tree : {NoTree}]

NoTemplate ==
    [mstate |-> "none", manifest |-> NoManifest, pkgValid |-> TRUE,
     pkgVersion |-> NoVersion, tree |-> NoTree]

Snapshot == [proj |-> proj, pkg |-> pkg, cfgFile |-> cfgFile]

\* two upgrade processes of the same machine; velocity-upgrade-<t> is named
\* by its t; NoDir is `tempDir` before line 224
Processes == {1, 2}
TempDirs == 0..MaxClock
NoDir == -1

\* no two processes run side by side
NoOtherRun ==
    /\ now = 0
    /\ tempDir = [r \in Processes |-> NoDir]
    /\ ppc = [r \in Processes |-> "start"]
    /\ tmpfs = [d \in TempDirs |-> {}]
    /\ wrote = [r \in Processes |-> FALSE]

----------------------------------------------------------------------------
(* upgrade.ts: upgrade, step by step *)

Init ==
    /\ pc = "init"
    /\ yes \in BOOLEAN
    /\ dryRun \in BOOLEAN
    /\ proj \in MainTrees(0..MaxContent)
    /\ pkg \in PackageJsons
    /\ cfgFile \in ConfigFiles
    /\ config = NoConfig
    /\ tmpl = NoTemplate
    /\ dl = "none"
    /\ tmpCreated = FALSE
    /\ tmpExists = FALSE
    /\ rmFailed = FALSE
    /\ manifest = NoManifest
    /\ classified = FALSE
    /\ diffs = <<>>
    /\ ci = 1
    /\ matchResults = <<>>
    /\ scanned = FALSE
    /\ exitCode = -1
    /\ outcome = "running"
    /\ start = Snapshot
    /\ orig = Snapshot
    /\ runs = 1
    /\ prevOutcome = "none"
    /\ NoOtherRun
    /\ input = <<>>
    /\ output = <<>>

\* the function returns, or process.exit(code) is called
Finish(how, code) ==
    /\ pc' = "done"
    /\ outcome' = how
    /\ exitCode' = code

\* the exit code of a process whose upgrade() ended in an exception: the
\* promise is rejected in the command-line entry, which spec section 4.6
\* calls a process-level error with a non-zero exit
UncaughtExit == 1

\* an exception leaves upgrade(): the function has no try around the
\* statements that throw and no finally, so nothing on the way out removes
\* tempDir and no statement of upgrade() sets an exit code. The exceptions
\* are those the contents of the files read make the code raise (JSON.parse
\* in readJson and in mergePackageJsonDeps, new RegExp); the file system
\* calls themselves succeed, but for rmSync inside cleanup
Throw ==
    /\ Finish("threw", UncaughtExit)
    /\ UNCHANGED <<tmpExists, rmFailed>>

\* cleanup(tempDir), lines 405-413: rmSync removes the directory, or fails
\* and the failure is ignored
cleanup ==
    \/ tmpExists' = FALSE /\ UNCHANGED rmFailed
    \/ tmpExists /\ UNCHANGED tmpExists /\ rmFailed' = TRUE

\* readJson of velocity-config.ts line 17 throws on a file that is not JSON
configThrows(file) == file.present /\ file.json = "malformed"

\* readVelocityConfig: null when .velocity.json does not exist, and what
\* the file holds otherwise (NoConfig stands for null, whether the file is
\* missing or holds null)
readVelocityConfig(file) ==
    IF file.present /\ file.json \in {"object", "falsy"} THEN file ELSE NoConfig

\* `!config` of line 204: true of null and of false, 0 and ""
notConfig(c) == c.json # "object"

\* a plausible slip: the object built as createInitialConfig builds it, with
\* createdAt set to the day of the write
writeVelocityConfigAsCreated(c, m) ==
    [c EXCEPT !.present = TRUE, !.json = "object", !.version = m.version,
              !.createdAt = Today, !.updatedAt = Today]

\* writeVelocityConfig(targetDir, {...config, version, updatedAt})
writeVelocityConfig(c, m) ==
    [c EXCEPT !.present = TRUE, !.json = "object", !.version = m.version,
              !.updatedAt = Today]

fallbackManifest(c, t) ==
    [version |-> IF t.pkgVersion # NoVersion THEN t.pkgVersion ELSE c.version,
     minCliVersion |-> <<1, 0, 0>>,
     files |-> [safe |-> FALLBACK_SAFE_FILES, protected |-> <<>>],
     dependencies |-> [update |-> NoDeps, remove |-> {}, add |-> NoDeps],
     migrations |-> <<>>]

changedDiffs(ds) ==
    SelectSeq(ds, LAMBDA d : d.status = "added" \/ d.status = "modified")

\* a plausible slip: the null test of lines 204-212 left out
ReadConfigUnchecked ==
    /\ pc = "init"
    /\ IF configThrows(cfgFile)
       THEN Throw /\ UNCHANGED config
       ELSE /\ config' = readVelocityConfig(cfgFile)
            /\ pc' = "gitCheck"
            /\ UNCHANGED <<outcome, exitCode, tmpExists, rmFailed>>
    /\ UNCHANGED <<yes, dryRun, proj, pkg, cfgFile, tmpl, dl, tmpCreated,
                   manifest, classified, diffs, ci, matchResults, scanned, start,
                   orig, runs, prevOutcome, input, output, parVars>>

\* lines 202-212: the read throws, or returns a value that `!config`
\* rejects (null for no file or a file that holds null, or false, 0, ""),
\* or returns the object
ReadConfig ==
    /\ pc = "init"
    /\ IF configThrows(cfgFile)
       THEN Throw /\ UNCHANGED config
       ELSE /\ config' = readVelocityConfig(cfgFile)
            /\ UNCHANGED <<tmpExists, rmFailed>>
            /\ IF notConfig(readVelocityConfig(cfgFile))
               THEN Finish("notProject", 1)
               ELSE pc' = "gitCheck" /\ UNCHANGED <<outcome, exitCode>>
    /\ UNCHANGED <<yes, dryRun, proj, pkg, cfgFile, tmpl, dl, tmpCreated,
                   manifest, classified, diffs, ci, matchResults, scanned, start,
                   orig, runs, prevOutcome, input, output, parVars>>

\* lines 214-218 up to the prompt of warnDirtyGit: hasUncommittedChanges is
\* an input; with --yes warnDirtyGit returns true at once
GitCheck ==
    /\ pc = "gitCheck"
    /\ \E dirty \in BOOLEAN :
          pc' = IF dirty /\ ~yes THEN "gitPrompt" ELSE "download"
    /\ UNCHANGED <<yes, dryRun, proj, pkg, cfgFile, config, tmpl, dl, tmpCreated,
                   tmpExists, rmFailed, manifest, classified, diffs, ci, matchResults,
                   scanned, exitCode, outcome, start, orig, runs, prevOutcome, input, output, parVars>>

\* a plausible slip: the git state is examined again after the user agreed
AnswerGitRechecks ==
    /\ pc = "gitPrompt"
    /\ \E proceed \in BOOLEAN :
          IF proceed
          THEN pc' = "gitCheck" /\ UNCHANGED <<outcome, exitCode>>
          ELSE Finish("gitDeclined", 0)
    /\ UNCHANGED <<yes, dryRun, proj, pkg, cfgFile, config, tmpl, dl, tmpCreated,
                   tmpExists, rmFailed, manifest, classified, diffs, ci, matchResults,
                   scanned, start, orig, runs, prevOutcome, input, output, parVars>>

\* the user answers "Continue anyway?" (a cancel counts as no)
AnswerGit ==
    /\ pc = "gitPrompt"
    /\ \E proceed \in BOOLEAN :
          IF proceed
          THEN pc' = "download" /\ UNCHANGED <<outcome, exitCode>>
          ELSE Finish("gitDeclined", 0)
    /\ UNCHANGED <<yes, dryRun, proj, pkg, cfgFile, config, tmpl, dl, tmpCreated,
                   tmpExists, rmFailed, manifest, classified, diffs, ci, matchResults,
                   scanned, start, orig, runs, prevOutcome, input, output, parVars>>

\* lines 220-227: tempDir is named and downloadTemplate is called; the run
\* waits for it
Download ==
    /\ pc = "download"
    /\ pc' = "downloading"
    /\ UNCHANGED <<yes, dryRun, proj, pkg, cfgFile, config, tmpl, dl, tmpCreated,
                   tmpExists, rmFailed, manifest, classified, diffs, ci, matchResults,
                   scanned, exitCode, outcome, start, orig, runs, prevOutcome,
                   input, output, parVars>>

\* while the run waits, downloadTemplate creates tempDir and writes into it
DownloadWrites ==
    /\ pc = "downloading"
    /\ ~tmpExists
    /\ tmpCreated' = TRUE
    /\ tmpExists' = TRUE
    /\ UNCHANGED <<pc, yes, dryRun, proj, pkg, cfgFile, config, tmpl, dl, rmFailed, manifest,
                   classified, diffs, ci, matchResults, scanned, exitCode, outcome,
                   start, orig, runs, prevOutcome, input, output, parVars>>

\* lines 227-242: downloadTemplate returns with the template in tempDir, or
\* throws, with or without a directory left; a later run downloads the same
\* template again
DownloadReturns ==
    /\ pc = "downloading"
    /\ \/ /\ tmpExists
          /\ tmpl' \in IF tmpl = NoTemplate THEN Templates ELSE {tmpl}
          /\ dl' = "ok"
          /\ pc' = "manifestLoad"
          /\ UNCHANGED <<outcome, exitCode, tmpExists, rmFailed>>
       \/ /\ dl' = "failed"
          /\ cleanup
          /\ Finish("downloadFailed", 1)
          /\ UNCHANGED tmpl
    /\ UNCHANGED <<yes, dryRun, proj, pkg, cfgFile, config, tmpCreated, manifest,
                   classified, diffs, ci, matchResults, scanned, start, orig, runs,
                   prevOutcome, input, output, parVars>>

\* lines 244-278: readJson throws on a malformed manifest (line 249) and,
\* when there is no manifest, on a malformed package.json of the template
\* (line 258)
ManifestLoad ==
    /\ pc = "manifestLoad"
    /\ \/ /\ tmpl.mstate = "ok"
          /\ manifest' = tmpl.manifest
          /\ pc' = "versionGate"
          /\ UNCHANGED <<outcome, exitCode, tmpExists, rmFailed>>
       \/ /\ tmpl.mstate = "absent" /\ ~tmpl.pkgValid
          /\ Throw
          /\ UNCHANGED manifest
       \/ /\ tmpl.mstate = "absent" /\ tmpl.pkgValid
          /\ manifest' = fallbackManifest(config, tmpl)
          /\ pc' = "versionGate"
          /\ UNCHANGED <<outcome, exitCode, tmpExists, rmFailed>>
       \/ /\ tmpl.mstate = "malformed"
          /\ Throw
          /\ UNCHANGED manifest
    /\ UNCHANGED <<yes, dryRun, proj, pkg, cfgFile, config, tmpl, dl, tmpCreated,
                   classified, diffs, ci, matchResults, scanned, start, orig, runs,
                   prevOutcome, input, output, parVars>>

\* a plausible slip: the arguments of isVersionLessThan swapped at line 281
VersionGateSwapped ==
    /\ pc = "versionGate"
    /\ IF isVersionLessThan(manifest.minCliVersion, CLI_VERSION)
       THEN cleanup /\ Finish("engineTooOld", 1)
       ELSE pc' = "noopCheck" /\ UNCHANGED <<outcome, exitCode, tmpExists, rmFailed>>
    /\ UNCHANGED <<yes, dryRun, proj, pkg, cfgFile, config, tmpl, dl, tmpCreated,
                   manifest, classified, diffs, ci, matchResults, scanned, start,
                   orig, runs, prevOutcome, input, output, parVars>>

\* lines 280-290
VersionGate ==
    /\ pc = "versionGate"
    /\ IF isVersionLessThan(CLI_VERSION, manifest.minCliVersion)
       THEN cleanup /\ Finish("engineTooOld", 1)
       ELSE pc' = "noopCheck" /\ UNCHANGED <<outcome, exitCode, tmpExists, rmFailed>>
    /\ UNCHANGED <<yes, dryRun, proj, pkg, cfgFile, config, tmpl, dl, tmpCreated,
                   manifest, classified, diffs, ci, matchResults, scanned, start,
                   orig, runs, prevOutcome, input, output, parVars>>

\* a plausible slip: line 293 compares with manifest.minCliVersion
NoopCheckWrongField ==
    /\ pc = "noopCheck"
    /\ IF config.version = manifest.minCliVersion
       THEN cleanup /\ Finish("noop", 0)
       ELSE pc' = "diff" /\ UNCHANGED <<outcome, exitCode, tmpExists, rmFailed>>
    /\ UNCHANGED <<yes, dryRun, proj, pkg, cfgFile, config, tmpl, dl, tmpCreated,
                   manifest, classified, diffs, ci, matchResults, scanned, start,
                   orig, runs, prevOutcome, input, output, parVars>>

\* lines 292-299
NoopCheck ==
    /\ pc = "noopCheck"
    /\ IF config.version = manifest.version
       THEN cleanup /\ Finish("noop", 0)
       ELSE pc' = "diff" /\ UNCHANGED <<outcome, exitCode, tmpExists, rmFailed>>
    /\ UNCHANGED <<yes, dryRun, proj, pkg, cfgFile, config, tmpl, dl, tmpCreated,
                   manifest, classified, diffs, ci, matchResults, scanned, start,
                   orig, runs, prevOutcome, input, output, parVars>>

\* lines 301-311: the classification and its tally; with nothing to copy
\* and no dependency change the run enters the metadata-only branch
Diff ==
    /\ pc = "diff"
    /\ LET ds == diffProjects(proj, tmpl.tree, manifest)
           sum == summarizeDiffs(ds)
       IN /\ diffs' = ds
          /\ classified' = TRUE
          /\ pc' = IF sum.added = 0 /\ sum.modified = 0 /\ ~hasDepChanges(manifest)
                   THEN "metaOnly"
                   ELSE "confirm"
    /\ UNCHANGED <<yes, dryRun, proj, pkg, cfgFile, config, tmpl, dl, tmpCreated,
                   tmpExists, rmFailed, manifest, ci, matchResults, scanned,
                   exitCode, outcome, start, orig, runs, prevOutcome, input,
                   output, parVars>>

\* a plausible slip: the !dryRun test of line 312 left out
MetadataOnlyWriteInDryRun ==
    /\ pc = "metaOnly"
    /\ cfgFile' = writeVelocityConfig(config, manifest)
    /\ pc' = "metaWritten"
    /\ UNCHANGED <<yes, dryRun, proj, pkg, config, tmpl, dl, tmpCreated,
                   tmpExists, rmFailed, manifest, classified, diffs, ci,
                   matchResults, scanned, exitCode, outcome, start, orig, runs,
                   prevOutcome, input, output, parVars>>

\* lines 312-318: outside a dry run the metadata-only branch writes the
\* version marker
MetadataOnlyWrite ==
    /\ pc = "metaOnly"
    /\ ~dryRun
    /\ cfgFile' = writeVelocityConfig(config, manifest)
    /\ pc' = "metaWritten"
    /\ UNCHANGED <<yes, dryRun, proj, pkg, config, tmpl, dl, tmpCreated,
                   tmpExists, rmFailed, manifest, classified, diffs, ci,
                   matchResults, scanned, exitCode, outcome, start, orig, runs,
                   prevOutcome, input, output, parVars>>

\* lines 320-322: the metadata-only branch removes tempDir and returns,
\* after the write of the marker or, in a dry run, without it
MetadataOnlyReturns ==
    /\ pc = "metaWritten" \/ (pc = "metaOnly" /\ dryRun)
    /\ cleanup
    /\ Finish("metadataOnly", 0)
    /\ UNCHANGED <<yes, dryRun, proj, pkg, cfgFile, config, tmpl, dl, tmpCreated,
                   manifest, classified, diffs, ci, matchResults, scanned, start,
                   orig, runs, prevOutcome, input, output, parVars>>

\* a plausible slip: the dry-run branch of lines 330-337 missing
ConfirmIgnoresDryRun ==
    /\ pc = "confirm"
    /\ pc' = "confirmPrompt"
    /\ UNCHANGED <<matchResults, scanned, outcome, exitCode, tmpExists, rmFailed>>
    /\ UNCHANGED <<yes, dryRun, proj, pkg, cfgFile, config, tmpl, dl, tmpCreated,
                   manifest, classified, diffs, ci, start, orig, runs, prevOutcome, input, output, parVars>>

\* lines 328-334 with confirmUpgrade up to its prompt: in a dry run it
\* returns false without asking and the run scans
Confirm ==
    /\ pc = "confirm"
    /\ IF dryRun
       THEN IF scanThrows(manifest.migrations)
            THEN Throw /\ UNCHANGED <<matchResults, scanned>>
            ELSE /\ matchResults' = scanForMigrationPatterns(proj, manifest.migrations)
                 /\ scanned' = TRUE
                 /\ pc' = "dryScanned"
                 /\ UNCHANGED <<outcome, exitCode, tmpExists, rmFailed>>
       ELSE /\ pc' = "confirmPrompt"
            /\ UNCHANGED <<matchResults, scanned, outcome, exitCode, tmpExists, rmFailed>>
    /\ UNCHANGED <<yes, dryRun, proj, pkg, cfgFile, config, tmpl, dl, tmpCreated,
                   manifest, classified, diffs, ci, start, orig, runs, prevOutcome, input, output, parVars>>

\* lines 335-337: the dry run removes tempDir and returns
DryRunReturns ==
    /\ pc = "dryScanned"
    /\ cleanup
    /\ Finish("dryRun", 0)
    /\ UNCHANGED <<yes, dryRun, proj, pkg, cfgFile, config, tmpl, dl, tmpCreated,
                   manifest, classified, diffs, ci, matchResults, scanned, start,
                   orig, runs, prevOutcome, input, output, parVars>>

\* a plausible slip: a declined confirmation ends in process.exit(1)
AnswerConfirmExitsOnDecline ==
    /\ pc = "confirmPrompt"
    /\ \E proceed \in BOOLEAN :
          IF ~proceed
          THEN cleanup /\ Finish("declined", 1)
          ELSE /\ pc' = IF changedDiffs(diffs) = <<>> THEN "merge" ELSE "copy"
               /\ UNCHANGED <<outcome, exitCode, tmpExists, rmFailed>>
    /\ ci' = 1
    /\ UNCHANGED <<yes, dryRun, proj, pkg, cfgFile, config, tmpl, dl, tmpCreated,
                   manifest, classified, diffs, matchResults, scanned, start, orig,
                   runs, prevOutcome, input, output, parVars>>

\* the user answers "Proceed with upgrade?"; lines 339-348
AnswerConfirm ==
    /\ pc = "confirmPrompt"
    /\ \E proceed \in BOOLEAN :
          IF ~proceed
          THEN cleanup /\ Finish("declined", 0)
          ELSE /\ pc' = IF changedDiffs(diffs) = <<>> THEN "merge" ELSE "copy"
               /\ UNCHANGED <<outcome, exitCode, tmpExists, rmFailed>>
    /\ ci' = 1
    /\ UNCHANGED <<yes, dryRun, proj, pkg, cfgFile, config, tmpl, dl, tmpCreated,
                   manifest, classified, diffs, matchResults, scanned, start, orig,
                   runs, prevOutcome, input, output, parVars>>

\* a plausible slip: the loop indexes the whole diff list, not the changed
\* entries of line 347
CopyFileFromDiffs ==
    /\ pc = "copy"
    /\ LET path == diffs[ci].path
       IN proj' = [proj EXCEPT ![path] = tmpl.tree[path]]
    /\ ci' = ci + 1
    /\ pc' = IF ci = Len(changedDiffs(diffs)) THEN "merge" ELSE "copy"
    /\ UNCHANGED <<yes, dryRun, pkg, cfgFile, config, tmpl, dl, tmpCreated, tmpExists, rmFailed,
                   manifest, classified, diffs, matchResults, scanned, exitCode,
                   outcome, start, orig, runs, prevOutcome, input, output, parVars>>

\* a plausible slip: the metadata write of lines 372-376 inside the copy loop
CopyFileWritesMarker ==
    /\ pc = "copy"
    /\ LET path == changedDiffs(diffs)[ci].path
       IN proj' = [proj EXCEPT ![path] = tmpl.tree[path]]
    /\ cfgFile' = writeVelocityConfig(config, manifest)
    /\ ci' = ci + 1
    /\ pc' = IF ci = Len(changedDiffs(diffs)) THEN "merge" ELSE "copy"
    /\ UNCHANGED <<yes, dryRun, pkg, config, tmpl, dl, tmpCreated, tmpExists, rmFailed,
                   manifest, classified, diffs, matchResults, scanned, exitCode,
                   outcome, start, orig, runs, prevOutcome, input, output, parVars>>

\* lines 349-359: one turn of the copy loop
CopyFile ==
    /\ pc = "copy"
    /\ LET path == changedDiffs(diffs)[ci].path
       IN proj' = [proj EXCEPT ![path] = tmpl.tree[path]]
    /\ ci' = ci + 1
    /\ pc' = IF ci = Len(changedDiffs(diffs)) THEN "merge" ELSE "copy"
    /\ UNCHANGED <<yes, dryRun, pkg, cfgFile, config, tmpl, dl, tmpCreated, tmpExists, rmFailed,
                   manifest, classified, diffs, matchResults, scanned, exitCode,
                   outcome, start, orig, runs, prevOutcome, input, output, parVars>>

\* lines 361-369
MergeDeps ==
    /\ pc = "merge"
    /\ IF hasDepChanges(manifest) /\ mergeThrows(pkg)
       THEN Throw /\ UNCHANGED pkg
       ELSE /\ pkg' = IF hasDepChanges(manifest)
                      THEN mergePackageJsonDeps(pkg, manifest) ELSE pkg
            /\ pc' = "writeConfig"
            /\ UNCHANGED <<outcome, exitCode, tmpExists, rmFailed>>
    /\ UNCHANGED <<yes, dryRun, proj, cfgFile, config, tmpl, dl, tmpCreated, manifest,
                   classified, diffs, ci, matchResults, scanned, start, orig, runs,
                   prevOutcome, input, output, parVars>>

\* a plausible slip: `version: manifest.version` left out at line 375
WriteConfigKeepsVersion ==
    /\ pc = "writeConfig"
    /\ cfgFile' = [config EXCEPT !.updatedAt = Today]
    /\ pc' = "report"
    /\ UNCHANGED <<yes, dryRun, proj, pkg, config, tmpl, dl, tmpCreated, tmpExists, rmFailed,
                   manifest, classified, diffs, ci, matchResults, scanned, exitCode,
                   outcome, start, orig, runs, prevOutcome, input, output, parVars>>

\* lines 371-376
WriteConfig ==
    /\ pc = "writeConfig"
    /\ cfgFile' = writeVelocityConfig(config, manifest)
    /\ pc' = "report"
    /\ UNCHANGED <<yes, dryRun, proj, pkg, config, tmpl, dl, tmpCreated, tmpExists, rmFailed,
                   manifest, classified, diffs, ci, matchResults, scanned, exitCode,
                   outcome, start, orig, runs, prevOutcome, input, output, parVars>>

\* lines 378-397: the report of the run and the migration scan
Report ==
    /\ pc = "report"
    /\ IF scanThrows(manifest.migrations)
       THEN Throw /\ UNCHANGED <<matchResults, scanned>>
       ELSE /\ matchResults' = scanForMigrationPatterns(proj, manifest.migrations)
            /\ scanned' = TRUE
            /\ pc' = "cleanup"
            /\ UNCHANGED <<outcome, exitCode, tmpExists, rmFailed>>
    /\ UNCHANGED <<yes, dryRun, proj, pkg, cfgFile, config, tmpl, dl, tmpCreated,
                   manifest, classified, diffs, ci, start, orig, runs, prevOutcome, input, output, parVars>>

\* lines 399-400: the run removes tempDir and returns
ReportReturns ==
    /\ pc = "cleanup"
    /\ cleanup
    /\ Finish("applied", 0)
    /\ UNCHANGED <<yes, dryRun, proj, pkg, cfgFile, config, tmpl, dl, tmpCreated,
                   manifest, classified, diffs, ci, matchResults, scanned, start,
                   orig, runs, prevOutcome, input, output, parVars>>

\* the process is killed while downloadTemplate is awaited: what the
\* download wrote so far stays on disk
InterruptDownload ==
    /\ pc = "downloading"
    /\ pc' = "interrupted"
    /\ outcome' = "interruptedDownload"
    /\ UNCHANGED <<yes, dryRun, proj, pkg, cfgFile, config, tmpl, dl, tmpCreated,
                   tmpExists, rmFailed, manifest, classified, diffs, ci, matchResults,
                   scanned, exitCode, start, orig, runs, prevOutcome, input, output, parVars>>

\* the process is killed during Apply, before the metadata write: between
\* two statements, or inside copyFileSync (line 358) or the writeFileSync of
\* mergePackageJsonDeps (line 193), which leave the file they were writing
\* truncated
Interrupt ==
    /\ pc \in {"copy", "merge", "writeConfig"}
    /\ \/ UNCHANGED <<proj, pkg>>
       \/ /\ pc = "copy"
          /\ proj' = [proj EXCEPT ![changedDiffs(diffs)[ci].path] = Truncated]
          /\ UNCHANGED pkg
       \/ /\ pc = "merge"
          /\ hasDepChanges(manifest) /\ pkg.exists /\ pkg.valid
          /\ pkg' = BadPackageJson
          /\ UNCHANGED proj
    /\ pc' = "interrupted"
    /\ outcome' = "interrupted"
    /\ UNCHANGED <<yes, dryRun, cfgFile, config, tmpl, dl, tmpCreated,
                   tmpExists, rmFailed, manifest, classified, diffs, ci, matchResults,
                   scanned, exitCode, start, orig, runs, prevOutcome, input, output, parVars>>

\* the process is killed in Diff, while diffProjects runs or after it
\* returned, before the metadata-only branch has written the version marker
InterruptDiff ==
    /\ pc \in {"diff", "metaOnly"}
    /\ pc' = "interrupted"
    /\ outcome' = "interruptedDiff"
    /\ UNCHANGED <<yes, dryRun, proj, pkg, cfgFile, config, tmpl, dl, tmpCreated,
                   tmpExists, rmFailed, manifest, classified, diffs, ci, matchResults,
                   scanned, exitCode, start, orig, runs, prevOutcome, input, output, parVars>>

\* the process is killed in the metadata-only branch after the version
\* marker was written, before cleanup (line 321): the new marker is on disk
\* and tempDir is left behind
InterruptMetadataOnly ==
    /\ pc = "metaWritten"
    /\ pc' = "interrupted"
    /\ outcome' = "interruptedAfterMarker"
    /\ UNCHANGED <<yes, dryRun, proj, pkg, cfgFile, config, tmpl, dl, tmpCreated,
                   tmpExists, rmFailed, manifest, classified, diffs, ci, matchResults,
                   scanned, exitCode, start, orig, runs, prevOutcome, input, output, parVars>>

\* the process is killed after Apply wrote the version marker, before
\* cleanup (line 399), with the scan still due or already shown: the
\* copies, the merge and the new marker are on disk and tempDir is left
\* behind
InterruptAfterMarker ==
    /\ pc \in {"report", "cleanup"}
    /\ pc' = "interrupted"
    /\ outcome' = "interruptedAfterMarker"
    /\ UNCHANGED <<yes, dryRun, proj, pkg, cfgFile, config, tmpl, dl, tmpCreated,
                   tmpExists, rmFailed, manifest, classified, diffs, ci, matchResults,
                   scanned, exitCode, start, orig, runs, prevOutcome, input, output, parVars>>

\* the process is killed in a dry run on the Confirm path, lines 324-335,
\* before or after the scan: the run has classified, nothing is written
\* and tempDir is left behind. Outside a dry run a process killed at the
\* summary or at the prompt leaves what one killed before the first copy
\* leaves
InterruptConfirm ==
    /\ (pc = "confirm" /\ dryRun) \/ pc = "dryScanned"
    /\ pc' = "interrupted"
    /\ outcome' = "interruptedConfirm"
    /\ UNCHANGED <<yes, dryRun, proj, pkg, cfgFile, config, tmpl, dl, tmpCreated,
                   tmpExists, rmFailed, manifest, classified, diffs, ci, matchResults,
                   scanned, exitCode, start, orig, runs, prevOutcome, input, output, parVars>>

\* the next statement of the run is cleanup(tempDir), followed by a
\* return, on a path that has classified: lines 321, 336, 340 and 399
CleanupDue ==
    \/ pc = "metaWritten"
    \/ pc = "metaOnly" /\ dryRun
    \/ pc = "dryScanned"
    \/ pc = "confirmPrompt"
    \/ pc = "cleanup"

\* the process is killed after rmSync returned and before the return that
\* follows: the disk is that of the run that ended there, tempDir is gone
\* and there is no exit code; at line 340 the user has declined. When
\* rmSync threw, the kill leaves what a kill before cleanup leaves. Before
\* the classification (lines 240, 288 and 297) such a kill leaves the
\* project as the run found it, with or without tempDir, which is what a
\* process killed during the download leaves
InterruptAfterCleanup ==
    /\ CleanupDue
    /\ tmpExists' = FALSE
    /\ UNCHANGED rmFailed
    /\ pc' = "interrupted"
    /\ outcome' = "interruptedAfterCleanup"
    /\ UNCHANGED <<yes, dryRun, proj, pkg, cfgFile, config, tmpl, dl, tmpCreated,
                   manifest, classified, diffs, ci, matchResults, scanned,
                   exitCode, start, orig, runs, prevOutcome, input, output, parVars>>

\* the user runs the upgrade again, with the same options, after a run
\* that reached Apply or wrote the version marker
Restart ==
    /\ runs < MaxRuns
    /\ \/ pc = "interrupted" /\ outcome = "interrupted"
       \/ pc = "done" /\ outcome \in {"applied", "metadataOnly"}
    /\ pc' = "init"
    /\ config' = NoConfig
    /\ dl' = "none"
    /\ tmpCreated' = FALSE
    /\ tmpExists' = FALSE
    /\ rmFailed' = FALSE
    /\ manifest' = NoManifest
    /\ classified' = FALSE
    /\ diffs' = <<>>
    /\ ci' = 1
    /\ matchResults' = <<>>
    /\ scanned' = FALSE
    /\ exitCode' = -1
    /\ outcome' = "running"
    /\ start' = Snapshot
    /\ runs' = runs + 1
    /\ prevOutcome' = outcome
    /\ UNCHANGED <<yes, dryRun, proj, pkg, cfgFile, tmpl, orig, input, output, parVars>>

Next ==
    \/ ReadConfig
    \/ GitCheck
    \/ AnswerGit
    \/ Download
    \/ DownloadWrites
    \/ DownloadReturns
    \/ ManifestLoad
    \/ VersionGate
    \/ NoopCheck
    \/ Diff
    \/ MetadataOnlyWrite
    \/ MetadataOnlyReturns
    \/ Confirm
    \/ DryRunReturns
    \/ AnswerConfirm
    \/ CopyFile
    \/ MergeDeps
    \/ WriteConfig
    \/ Report
    \/ ReportReturns
    \/ InterruptDownload
    \/ InterruptDiff
    \/ Interrupt
    \/ InterruptMetadataOnly
    \/ InterruptAfterMarker
    \/ InterruptConfirm
    \/ InterruptAfterCleanup
    \/ Restart

Spec == Init /\ [][Next]_vars

\* the statements of upgrade() but the classification: a run that is not
\* killed goes on to its next statement, the download call and the prompts
\* return
RunStep ==
    \/ ReadConfig
    \/ GitCheck
    \/ AnswerGit
    \/ Download
    \/ DownloadWrites
    \/ DownloadReturns
    \/ ManifestLoad
    \/ VersionGate
    \/ NoopCheck
    \/ MetadataOnlyWrite
    \/ MetadataOnlyReturns
    \/ Confirm
    \/ DryRunReturns
    \/ AnswerConfirm
    \/ CopyFile
    \/ MergeDeps
    \/ WriteConfig
    \/ Report
    \/ ReportReturns

\* the classification of lines 302-303 returns: Diff has no guard but the
\* place of the run, and every step that leaves that place is a step of Diff
DiffReturns == pc = "diff" /\ pc' \in {"confirm", "metaOnly"}


----------------------------------------------------------------------------
(* The runs against a template whose manifest updates and removes the same
   package, or changes no dependency, the template fixed from the start *)

RerunTemplates ==
    [mstate : {"ok"},
     manifest : [version : {V1, V2},
                 minCliVersion : {CLI_VERSION},
                 files : [safe : SafeLists, protected : { <<>> }],
                 dependencies : {UpdateAndRemove, NoManifest.dependencies},
                 migrations : { <<>> }],
     pkgValid : {TRUE},
     pkgVersion : {NoVersion},
     tree : FreshTrees]

RerunInit ==
    /\ pc = "init"
    /\ yes \in BOOLEAN
    /\ dryRun \in BOOLEAN
    /\ proj \in MainTrees(0..MaxContent)
    /\ pkg \in {GoodPackageJson, DevOnlyPackageJson}
    /\ cfgFile \in ConfigFiles
    /\ config = NoConfig
    /\ tmpl \in RerunTemplates
    /\ dl = "none"
    /\ tmpCreated = FALSE
    /\ tmpExists = FALSE
    /\ rmFailed = FALSE
    /\ manifest = NoManifest
    /\ classified = FALSE
    /\ diffs = <<>>
    /\ ci = 1
    /\ matchResults = <<>>
    /\ scanned = FALSE
    /\ exitCode = -1
    /\ outcome = "running"
    /\ start = Snapshot
    /\ orig = Snapshot
    /\ runs = 1
    /\ prevOutcome = "none"
    /\ NoOtherRun
    /\ input = <<>>
    /\ output = <<>>

SpecRerun == RerunInit /\ [][Next]_vars

(* The runs that are left to go on, against a template that ships both files:
   with a manifest that lists src/lib and tsconfig.json and protects
   nothing, or with no manifest, or with a malformed one *)

LiveTemplates ==
    {t \in Templates :
        t.mstate = "ok" =>
            /\ t.manifest.files.protected = <<>>
            /\ Len(t.manifest.files.safe) = 3
            /\ \A f \in MainFiles : t.tree[f] = 1}

LiveInit ==
    /\ pc = "init"
    /\ yes \in BOOLEAN
    /\ dryRun \in BOOLEAN
    /\ proj \in MainTrees(0..MaxContent)
    /\ pkg \in {BadPackageJson, GoodPackageJson}
    /\ cfgFile \in ConfigFiles
    /\ config = NoConfig
    /\ tmpl \in LiveTemplates
    /\ dl = "none"
    /\ tmpCreated = FALSE
    /\ tmpExists = FALSE
    /\ rmFailed = FALSE
    /\ manifest = NoManifest
    /\ classified = FALSE
    /\ diffs = <<>>
    /\ ci = 1
    /\ matchResults = <<>>
    /\ scanned = FALSE
    /\ exitCode = -1
    /\ outcome = "running"
    /\ start = Snapshot
    /\ orig = Snapshot
    /\ runs = 1
    /\ prevOutcome = "none"
    /\ NoOtherRun
    /\ input = <<>>
    /\ output = <<>>

SpecLive == LiveInit /\ [][Next]_vars /\ WF_vars(RunStep) /\ WF_pc(DiffReturns)

----------------------------------------------------------------------------
(* The functions of the engine, each called on its own *)

runVarsOfOne == <<yes, dryRun, proj, pkg, cfgFile, config, tmpl, dl, tmpCreated,
                  tmpExists, rmFailed, manifest, classified, diffs, ci, matchResults,
                  scanned, exitCode, outcome, start, orig, runs, prevOutcome>>

runVars == <<runVarsOfOne, parVars>>

\* no upgrade is running: its locals and files are at rest
AtRest ==
    /\ yes = FALSE
    /\ dryRun = FALSE
    /\ proj = NoTree
    /\ pkg = NoPackageJson
    /\ cfgFile = NoConfig
    /\ config = NoConfig
    /\ tmpl = NoTemplate
    /\ dl = "none"
    /\ tmpCreated = FALSE
    /\ tmpExists = FALSE
    /\ rmFailed = FALSE
    /\ manifest = NoManifest
    /\ classified = FALSE
    /\ diffs = <<>>
    /\ ci = 1
    /\ matchResults = <<>>
    /\ scanned = FALSE
    /\ exitCode = -1
    /\ outcome = "running"
    /\ start = Snapshot
    /\ orig = Snapshot
    /\ runs = 1
    /\ prevOutcome = "none"
    /\ NoOtherRun

\* diffProjects(currentDir, freshDir, manifest)

SrcDir == <<"src">>
SubDir == <<"src", "lib", "sub">>
DiffFiles == {AFile, SubFile, TsConfig}

DiffEntries ==
    { Entry(SrcDir, TRUE), Entry(LibDir, TRUE), Entry(LibDir, FALSE),
      Entry(SubDir, TRUE), Entry(SubDir, FALSE),
      Entry(AFile, FALSE), Entry(TsConfig, FALSE) }

DiffManifests ==
    [files : [safe : SeqsUpTo(DiffEntries, MaxEntries),
              protected : { <<>>, <<AFile>> }]]

DiffInit ==
    /\ AtRest
    /\ pc = "call"
    /\ input \in [currentDir : TreesOver(DiffFiles, 0..MaxContent),
                   freshDir : TreesOver(DiffFiles, {0, 1}),
                   manifest : DiffManifests]
    /\ output = <<>>

CallDiffProjects ==
    /\ pc = "call"
    /\ pc' = "diffed"
    /\ output' = [expanded |-> expandPaths(input.manifest.files.safe, input.freshDir),
                  diffs |-> diffProjects(input.currentDir, input.freshDir,
                                         input.manifest)]
    /\ UNCHANGED <<runVars, input>>

SpecDiff == DiffInit /\ [][CallDiffProjects]_vars

\* summarizeDiffs(diffs)

FileDiffs ==
    [path : {AFile, TsConfig},
     status : {"added", "modified", "unchanged", "removed"},
     category : {"safe", "protected"}]

SummarizeInit ==
    /\ AtRest
    /\ pc = "call"
    /\ input \in SeqsUpTo(FileDiffs, MaxDiffs)
    /\ output = <<>>

CallSummarizeDiffs ==
    /\ pc = "call"
    /\ pc' = "summarized"
    /\ output' = summarizeDiffs(input)
    /\ UNCHANGED <<runVars, input>>

SpecSummarize == SummarizeInit /\ [][CallSummarizeDiffs]_vars

\* mergePackageJsonDeps(targetDir, manifest), once and once more

DepSections ==
    {[has |-> FALSE, of |-> NoDeps]}
        \cup [has : {TRUE}, of : [Pkgs -> 0..MaxDepVersion]]

MergePackageJsons ==
    {NoPackageJson, BadPackageJson}
        \cup {[exists |-> TRUE, valid |-> TRUE,
               hasDeps |-> d.has, deps |-> d.of,
               hasDev |-> v.has, dev |-> v.of] : d \in DepSections, v \in DepSections}

MergeManifests ==
    [dependencies : [update : [Pkgs -> 0..MaxDepVersion],
                     remove : SUBSET Pkgs,
                     add : [Pkgs -> 0..MaxDepVersion]]]

MergeInit ==
    /\ AtRest
    /\ pc = "call"
    /\ input \in [pkg : MergePackageJsons, manifest : MergeManifests]
    /\ output = <<>>

CallMerge ==
    /\ pc = "call"
    /\ IF mergeThrows(input.pkg)
       THEN pc' = "threw" /\ output' = <<>>
       ELSE /\ pc' = "merged"
            /\ output' = [once |-> mergePackageJsonDeps(input.pkg, input.manifest)]
    /\ UNCHANGED <<runVars, input>>

CallMergeAgain ==
    /\ pc = "merged"
    /\ pc' = "mergedTwice"
    /\ output' = [once |-> output.once,
                  twice |-> mergePackageJsonDeps(output.once, input.manifest)]
    /\ UNCHANGED <<runVars, input>>

MergeNext == CallMerge \/ CallMergeAgain

SpecMerge == MergeInit /\ [][MergeNext]_vars

\* isVersionLessThan(current, required), for every pair of three versions

Versions ==
    UNION {[1..k -> {NonNumeric} \cup 0..MaxSegment] : k \in 1..MaxSegments}

CompareInit ==
    /\ AtRest
    /\ pc = "call"
    /\ input \in [1..3 -> Versions]
    /\ output = <<>>

CallIsVersionLessThan ==
    /\ pc = "call"
    /\ pc' = "compared"
    /\ output' = [a \in 1..3 |->
                    [b \in 1..3 |-> isVersionLessThan(input[a], input[b])]]
    /\ UNCHANGED <<runVars, input>>

SpecCompare == CompareInit /\ [][CallIsVersionLessThan]_vars

\* scanForMigrationPatterns(targetDir, migrations)

ModDir == <<"src", "node_modules">>
DocsDir == <<"docs">>

SearchPathLists ==
    SeqsUpTo({SrcDir, LibDir, ModDir, DocsDir, TsConfig}, MaxSearchPaths)

StepWith(title, pattern, searchPaths) ==
    [title |-> title, description |-> title, pattern |-> pattern,
     searchPaths |-> searchPaths]

\* the steps of one title: without a pattern, with a pattern that does not
\* compile, or with the oldApi pattern and any list of search paths
StepsTitled(title) ==
    {StepWith(title, NoPattern, <<>>), StepWith(title, BrokenPattern, <<>>)}
        \cup {StepWith(title, OldApiPattern, sp) : sp \in SearchPathLists}

ScanMigrations ==
    { <<>> }
        \cup {<<a>> : a \in StepsTitled("Rename oldApi")}
        \cup {<<a, b>> : a \in StepsTitled("Rename oldApi"),
                          b \in {MigrationStep("Read the changelog", NoPattern),
                                  MigrationStep("Drop oldApi", OldApiPattern),
                                  MigrationStep("Rename oldApi", NoPattern)}}

ScanInit ==
    /\ AtRest
    /\ pc = "call"
    /\ input \in [tree : Trees(0..MaxContent), migrations : ScanMigrations]
    /\ output = <<>>

CallScan ==
    /\ pc = "call"
    /\ IF scanThrows(input.migrations)
       THEN pc' = "threw" /\ output' = <<>>
       ELSE /\ pc' = "scanned"
            /\ output' = scanForMigrationPatterns(input.tree, input.migrations)
    /\ UNCHANGED <<runVars, input>>

SpecScan == ScanInit /\ [][CallScan]_vars

----------------------------------------------------------------------------
(* Two upgrade processes run side by side, each through the lines of
   upgrade() that name, fill, read and remove its temporary directory *)

\* one millisecond passes
Tick ==
    /\ now < MaxClock
    /\ now' = now + 1
    /\ UNCHANGED <<pc, runVarsOfOne, input, output, tempDir, ppc, tmpfs, wrote>>

\* line 224
NameTempDir ==
    \E r \in Processes :
        /\ ppc[r] = "start"
        /\ tempDir' = [tempDir EXCEPT ![r] = now]
        /\ ppc' = [ppc EXCEPT ![r] = "download"]
        /\ UNCHANGED <<pc, runVarsOfOne, input, output, now, tmpfs, wrote>>

\* line 227, while the process waits: with force: true downloadTemplate
\* writes into the directory whatever it holds; its files replace those
\* another process wrote there, or lie among them
TemplateWritten ==
    \E r \in Processes :
        /\ ppc[r] = "download"
        /\ ~wrote[r]
        /\ \E files \in {{r}, tmpfs[tempDir[r]] \cup {r}} :
              tmpfs' = [tmpfs EXCEPT ![tempDir[r]] = files]
        /\ wrote' = [wrote EXCEPT ![r] = TRUE]
        /\ UNCHANGED <<pc, runVarsOfOne, input, output, now, tempDir, ppc>>

\* lines 227-242: downloadTemplate returns once it has written the
\* template, or throws, having written a part or nothing; after a failed
\* download cleanup removes the directory, or fails to, whole or after a
\* part of the files is gone, and the process exits
DownloadTemplate ==
    \E r \in Processes :
        /\ ppc[r] = "download"
        /\ \/ /\ wrote[r]
              /\ ppc' = [ppc EXCEPT ![r] = "read"]
              /\ UNCHANGED tmpfs
           \/ /\ \E left \in SUBSET tmpfs[tempDir[r]] :
                    tmpfs' = [tmpfs EXCEPT ![tempDir[r]] = left]
              /\ ppc' = [ppc EXCEPT ![r] = "failed"]
        /\ UNCHANGED <<pc, runVarsOfOne, input, output, now, tempDir, wrote>>

\* lines 244-394: the process reads the manifest and the files under tempDir
ReadTemplate ==
    \E r \in Processes :
        /\ ppc[r] = "read"
        /\ ppc' = [ppc EXCEPT ![r] = "cleanup"]
        /\ UNCHANGED <<pc, runVarsOfOne, input, output, now, tempDir, tmpfs, wrote>>

\* lines 405-413: rmSync removes the directory, or fails, at once or after
\* it removed a part of the files, and the failure is ignored
CleanupTempDir ==
    \E r \in Processes :
        /\ ppc[r] = "cleanup"
        /\ \E left \in SUBSET tmpfs[tempDir[r]] :
              tmpfs' = [tmpfs EXCEPT ![tempDir[r]] = left]
        /\ ppc' = [ppc EXCEPT ![r] = "done"]
        /\ UNCHANGED <<pc, runVarsOfOne, input, output, now, tempDir, wrote>>

ParInit ==
    /\ AtRest
    /\ pc = "sideBySide"
    /\ input = <<>>
    /\ output = <<>>

ParNext ==
    \/ Tick
    \/ NameTempDir
    \/ TemplateWritten
    \/ DownloadTemplate
    \/ ReadTemplate
    \/ CleanupTempDir

SpecPar == ParInit /\ [][ParNext]_vars

----------------------------------------------------------------------------
(* State predicates the properties share *)

\* the project files, package.json and .velocity.json are as the run found them
Untouched == proj = start.proj /\ pkg = start.pkg /\ cfgFile = start.cfgFile

ManifestLoaded == manifest # NoManifest

EngineTooOld ==
    ManifestLoaded /\ isVersionLessThan(CLI_VERSION, manifest.minCliVersion)

HasChanges ==
    changedDiffs(diffProjects(proj, tmpl.tree, manifest)) # <<>>

RECURSIVE copyAll(_, _, _)
copyAll(tree, freshDir, ds) ==
    IF ds = <<>> THEN tree
    ELSE copyAll([tree EXCEPT ![Head(ds).path] = freshDir[Head(ds).path]],
                 freshDir, Tail(ds))

\* what one accepted, uninterrupted run makes of the project state s
UninterruptedResult(s) ==
    [proj |-> copyAll(s.proj, tmpl.tree,
                      changedDiffs(diffProjects(s.proj, tmpl.tree, manifest))),
     pkg |-> IF hasDepChanges(manifest)
             THEN mergePackageJsonDeps(s.pkg, manifest) ELSE s.pkg,
     cfgFile |-> writeVelocityConfig(s.cfgFile, manifest)]

\* a protected path and a safe entry name the same file, or one lies
\* below the other
SafeProtectedOverlap ==
    \E i \in 1..Len(manifest.files.protected), j \in 1..Len(manifest.files.safe) :
        \/ IsPrefix(manifest.files.safe[j].path, manifest.files.protected[i])
        \/ IsPrefix(manifest.files.protected[i], manifest.files.safe[j].path)

\* the file at `path` differs from what the run found
Touched(path) ==
    \/ path = PackageJson /\ pkg # start.pkg
    \/ path = VelocityJson /\ cfgFile # start.cfgFile
    \/ path \in FileUniverse /\ proj[path] # start.proj[path]

----------------------------------------------------------------------------
(* Properties *)

\* C1: a run that created its ephemeral template directory has removed it
\* when it ends, on every exit path, failures of later steps included,
\* unless the removal itself failed.
C1_TempDirRemovedOnEveryExit ==
    (pc = "done" /\ tmpCreated) => (rmFailed \/ ~tmpExists)

\* C2: with the dry-run flag no state of a run differs from the run's start
\* in a project file, in package.json or in .velocity.json.
C2_DryRunWritesNothing ==
    dryRun => Untouched

\* C2 witness: a dry run ended on the Confirm path with file and dependency
\* changes on offer.
C2_Witness ==
    /\ dryRun
    /\ pc = "done"
    /\ outcome = "dryRun"
    /\ HasChanges
    /\ hasDepChanges(manifest)

\* C3: with the assume-yes flag the run never waits at the dirty-git prompt
\* nor at the upgrade confirmation, and a run that is no dry run and has
\* changes to apply is never declined.
C3_YesNeverPrompts ==
    yes => /\ pc \notin {"gitPrompt", "confirmPrompt"}
           /\ outcome \notin {"gitDeclined", "declined"}

\* C4: a run the user declined, at the dirty-git prompt or at the upgrade
\* confirmation, ends with exit code 0 and the project as the run found it.
C4_DeclineChangesNothing ==
    (pc = "done" /\ outcome \in {"gitDeclined", "declined"}) =>
        (exitCode = 0 /\ Untouched)

\* C4 witness: the user declined the upgrade confirmation while files were
\* waiting to be copied.
C4_Witness ==
    /\ pc = "done"
    /\ outcome = "declined"
    /\ changedDiffs(diffs) # <<>>
    /\ tmpCreated

\* C5, as claimed: with the engine older than manifest.minCliVersion the run
\* never gets past the version gate, classifies and writes nothing, and ends
\* with a non-zero exit and its ephemeral directory removed; the gate aborts
\* in no other case.
C5_Original ==
    /\ EngineTooOld =>
          /\ pc \in {"versionGate", "done"}
          /\ ~classified
          /\ Untouched
    /\ (EngineTooOld /\ pc = "done") =>
          /\ outcome = "engineTooOld"
          /\ exitCode # 0
          /\ ~tmpExists
    /\ outcome = "engineTooOld" => EngineTooOld

\* C5, amended: with the engine older than manifest.minCliVersion the run
\* never gets past the version gate, classifies and writes nothing, and ends
\* with a non-zero exit; its ephemeral directory is removed unless the
\* removal itself failed; the gate aborts in no other case.
C5_VersionGate ==
    LET tooOld == EngineTooOld
    IN /\ tooOld =>
             /\ pc \in {"versionGate", "done"}
             /\ ~classified
             /\ Untouched
       /\ (pc = "done" /\ tooOld) =>
             /\ outcome = "engineTooOld"
             /\ exitCode # 0
             /\ rmFailed \/ ~tmpExists
       /\ outcome = "engineTooOld" => tooOld

\* C5 witness: a run aborted at the version gate after the download.
C5_Witness ==
    /\ pc = "done"
    /\ outcome = "engineTooOld"
    /\ tmpCreated
    /\ HasChanges

\* C6, as claimed: a run whose persisted version equals the manifest version
\* ends with exit code 0, unclassified and with nothing written.
C6_Original ==
    (pc = "done" /\ ManifestLoaded /\ config.version = manifest.version) =>
        (exitCode = 0 /\ ~classified /\ Untouched)

\* C6, amended: a run whose persisted version equals the manifest version
\* never classifies or writes, and ends with exit code 0 provided the engine
\* is not older than manifest.minCliVersion.
C6_NoopWhenGatePasses ==
    (ManifestLoaded /\ config.version = manifest.version) =>
        /\ ~classified
        /\ Untouched
        /\ (pc = "done" /\ ~EngineTooOld) => (exitCode = 0 /\ outcome = "noop")

\* C6 witness: a first run stopped at the no-op check although files differ
\* from the template and the manifest declares dependency changes.
C6_Witness ==
    /\ pc = "done"
    /\ outcome = "noop"
    /\ runs = 1
    /\ HasChanges
    /\ hasDepChanges(manifest)

\* C7: a run exits non-zero exactly when the metadata is absent (no
\* .velocity.json, or one that holds no project object), the download
\* fails or the engine is older than manifest.minCliVersion; every other
\* run exits with zero.
C7_ExitCodes ==
    pc = "done" =>
        (exitCode # 0 <=>
            (start.cfgFile.json # "object" \/ dl = "failed" \/ EngineTooOld))

\* C8: while a file copy or the dependency merge of a run is pending, the
\* persisted version is not the manifest version: .velocity.json is still
\* as the run found it.
C8_MarkerWrittenLast ==
    pc \in {"copy", "merge"} =>
        (cfgFile.version # manifest.version /\ cfgFile = start.cfgFile)

\* C8 witness: the copies of a run are done and its dependency merge is
\* pending.
C8_Witness ==
    /\ pc = "merge"
    /\ proj # start.proj
    /\ hasDepChanges(manifest)

\* C9: a run interrupted in Apply leaves the persisted metadata as it found
\* it; the next run is not stopped by the no-op check and, when accepted and
\* uninterrupted, ends with the project files, package.json and persisted
\* version of a run that was never interrupted; for that the interrupted
\* run leaves a package.json the next run can parse.
C9_InterruptedRunIsRerunnable ==
    /\ (pc = "interrupted" /\ outcome = "interrupted") =>
          /\ cfgFile = start.cfgFile
          /\ mergeThrows(pkg) => mergeThrows(start.pkg)
    /\ prevOutcome = "interrupted" => outcome # "noop"
    /\ (prevOutcome = "interrupted" /\ pc = "done"
            /\ outcome \in {"applied", "metadataOnly"}) =>
          /\ proj = UninterruptedResult(orig).proj
          /\ pkg = UninterruptedResult(orig).pkg
          /\ cfgFile = UninterruptedResult(orig).cfgFile

\* C10: when the safe and the protected paths do not overlap, no state of a
\* run differs from the run's start at a protected path.
C10_ProtectedUntouched ==
    ~SafeProtectedOverlap =>
        \A i \in 1..Len(manifest.files.protected) :
            ~Touched(manifest.files.protected[i])

\* the paths diffProjects classifies added or modified for the project the
\* run found
ChangedPaths ==
    LET ds == diffProjects(start.proj, tmpl.tree, manifest)
    IN {ds[i].path : i \in {j \in 1..Len(ds) : ds[j].status \in {"added", "modified"}}}

\* C11: once the copy loop of Apply is over, every path classified added or
\* modified holds the bytes of the fresh template's file and every other
\* project file is as the run found it; while the loop runs, and after it,
\* no file the run found is gone and no file outside the classified paths
\* has changed.
C11_CopyWritesExactlyChangedPaths ==
    LET changed == ChangedPaths
    IN /\ (pc \in {"merge", "writeConfig", "report", "cleanup"}
                \/ (pc = "done" /\ outcome = "applied")) =>
             \A f \in FileUniverse :
                 IF f \in changed
                 THEN proj[f] = tmpl.tree[f] /\ tmpl.tree[f] # 0
                 ELSE proj[f] = start.proj[f]
       /\ (pc \in {"copy", "merge", "writeConfig", "report", "cleanup",
                  "interrupted"} /\ proj # start.proj) =>
             \A f \in FileUniverse :
                 /\ start.proj[f] # 0 => proj[f] # 0
                 /\ f \notin changed => proj[f] = start.proj[f]

\* C11 witness: the copy loop is over, it created one file and overwrote
\* another.
C11_Witness ==
    /\ pc = "merge"
    /\ \E f \in FileUniverse : start.proj[f] = 0 /\ proj[f] # 0
    /\ \E f \in FileUniverse : start.proj[f] # 0 /\ proj[f] # start.proj[f]

\* a declared entry names the path or a directory above it
Covered(safe, f) == \E i \in 1..Len(safe) : IsPrefix(safe[i].path, f)

\* the entries of a diff list that are about the path f
EntriesOf(ds, f) == {i \in 1..Len(ds) : ds[i].path = f}

\* C12: diffProjects returns, for every file of the fresh tree that a safe
\* entry names or lies above, exactly one entry: added when the project has
\* no such file, unchanged when it has one with the same content, modified
\* otherwise; a covered path with no file in the fresh tree gets no entry,
\* and every entry is about a file of the fresh tree.
C12_DiffClassifies ==
    pc = "diffed" =>
        LET ds == output.diffs
            safe == input.manifest.files.safe
        IN /\ \A f \in FileUniverse :
                  Covered(safe, f) =>
                      IF input.freshDir[f] # 0
                      THEN /\ Cardinality(EntriesOf(ds, f)) = 1
                           /\ \A i \in EntriesOf(ds, f) :
                                 ds[i].status =
                                     IF input.currentDir[f] = 0 THEN "added"
                                     ELSE IF input.currentDir[f] = input.freshDir[f]
                                          THEN "unchanged"
                                     ELSE "modified"
                      ELSE EntriesOf(ds, f) = {}
           /\ \A i \in 1..Len(ds) :
                  ds[i].path \in FileUniverse /\ input.freshDir[ds[i].path] # 0

\* C12 witness: of three files the safe entries cover, the project has one
\* with the same content, one with another content and lacks the third.
C12_Witness ==
    /\ pc = "diffed"
    /\ summarizeDiffs(output.diffs) = [added |-> 1, modified |-> 1, unchanged |-> 1]

\* C13: every entry diffProjects returns is about a path that a safe entry
\* names or lies above, has a status among added, modified and unchanged and
\* the category safe; a file that differs between the two trees and that no
\* safe entry covers has no entry.
C13_DiffStaysInSafeSet ==
    pc = "diffed" =>
        LET ds == output.diffs
            safe == input.manifest.files.safe
        IN /\ \A i \in 1..Len(ds) :
                  /\ Covered(safe, ds[i].path)
                  /\ ds[i].status \in {"added", "modified", "unchanged"}
                  /\ ds[i].category = "safe"
           /\ \A f \in FileUniverse :
                  (input.currentDir[f] # input.freshDir[f] /\ ~Covered(safe, f)) =>
                      EntriesOf(ds, f) = {}

\* C13 witness: the diff has an entry for a file that is also declared
\* protected, and a file of the fresh tree outside the safe entries differs
\* from the project's.
C13_Witness ==
    /\ pc = "diffed"
    /\ \E i \in 1..Len(output.diffs) :
          \E j \in 1..Len(input.manifest.files.protected) :
              output.diffs[i].path = input.manifest.files.protected[j]
    /\ \E f \in FileUniverse :
          /\ input.freshDir[f] # 0
          /\ input.currentDir[f] # input.freshDir[f]
          /\ ~Covered(input.manifest.files.safe, f)

\* how many entries of a diff list have the status st
CountStatus(ds, st) == Cardinality({i \in 1..Len(ds) : ds[i].status = st})

\* C14: summarizeDiffs returns, for added, modified and unchanged, the number
\* of entries with that status whatever their category; the three counts
\* add up to the length of the list less its removed entries, and the empty
\* list gives three zeros.
C14_SummaryCountsByStatus ==
    pc = "summarized" =>
        /\ output.added = CountStatus(input, "added")
        /\ output.modified = CountStatus(input, "modified")
        /\ output.unchanged = CountStatus(input, "unchanged")
        /\ output.added + output.modified + output.unchanged
               = Len(input) - CountStatus(input, "removed")
        /\ input = <<>> => output = [added |-> 0, modified |-> 0, unchanged |-> 0]

\* C14 witness: the list summarized holds a removed entry and a protected
\* entry that is counted.
C14_Witness ==
    /\ pc = "summarized"
    /\ CountStatus(input, "removed") > 0
    /\ \E i \in 1..Len(input) :
          input[i].category = "protected" /\ input[i].status = "modified"
    /\ output.modified > 0

\* the paths the model's trees can have a directory at
DirPaths == {SrcDir, LibDir, SubDir}

\* the list of entries with the i-th written the other way
Respelled(paths, i) == [paths EXCEPT ![i].slash = ~paths[i].slash]

SetOf(seq) == {seq[i] : i \in 1..Len(seq)}

NoRepeats(seq) == \A i, j \in 1..Len(seq) : seq[i] = seq[j] => i = j

\* C15 as stated: whatever directory an entry names, writing the entry the
\* other way (with or without the trailing separator) leaves the set
\* expandPaths returns as it is, and no path is returned twice.
C15_Original ==
    pc = "diffed" =>
        LET safe == input.manifest.files.safe
        IN /\ NoRepeats(output.expanded)
           /\ \A i \in 1..Len(safe) :
                  safe[i].path \in DirPaths =>
                      SetOf(expandPaths(Respelled(safe, i), input.freshDir))
                          = SetOf(output.expanded)

\* C15: for an entry that names a directory of the fresh tree, writing the
\* entry the other way (with or without the trailing separator) leaves the
\* set expandPaths returns as it is; and expandPaths returns no path twice,
\* whatever the entries.
C15_ExpandIgnoresSpelling ==
    pc = "diffed" =>
        LET safe == input.manifest.files.safe
        IN /\ NoRepeats(output.expanded)
           /\ \A i \in 1..Len(safe) :
                  IsDirectory(input.freshDir, safe[i].path) =>
                      SetOf(expandPaths(Respelled(safe, i), input.freshDir))
                          = SetOf(output.expanded)

\* C15 witness: a directory of the fresh tree is declared without the
\* separator, next to an entry for a directory inside it, and the
\* expansion holds the files of both, each once.
C15_Witness ==
    /\ pc = "diffed"
    /\ input.manifest.files.safe = <<Entry(LibDir, FALSE), Entry(SubDir, TRUE)>>
    /\ output.expanded = <<AFile, SubFile>>

\* C16: the package descriptor after mergePackageJsonDeps has been applied
\* twice with the same manifest is the descriptor after the first
\* application.
C16_MergeIdempotent ==
    pc = "mergedTwice" => output.twice = output.once

\* C17: after mergePackageJsonDeps on an existing package descriptor, every
\* name in add is in dependencies with the add version; every name in
\* remove and not in add is in neither section; every name in update and in
\* neither remove nor add has the update version in dependencies when
\* dependencies declared it, else in devDependencies when that declared it,
\* else in dependencies, and its entry in the other section is as before;
\* the entries of a package the manifest does not name are as before.
C17_MergeUpdateRemoveAdd ==
    (pc = "merged" /\ input.pkg.exists) =>
        LET p == input.pkg
            r == output.once
            update == input.manifest.dependencies.update
            remove == input.manifest.dependencies.remove
            add == input.manifest.dependencies.add
        IN \A n \in Pkgs :
              /\ add[n] # 0 => (r.hasDeps /\ r.deps[n] = add[n])
              /\ (n \in remove /\ add[n] = 0) => (r.deps[n] = 0 /\ r.dev[n] = 0)
              /\ (update[n] # 0 /\ n \notin remove /\ add[n] = 0) =>
                    IF p.deps[n] # 0
                    THEN r.deps[n] = update[n] /\ r.dev[n] = p.dev[n]
                    ELSE IF p.dev[n] # 0
                         THEN r.dev[n] = update[n] /\ r.deps[n] = 0
                    ELSE r.hasDeps /\ r.deps[n] = update[n] /\ r.dev[n] = 0
              /\ (update[n] = 0 /\ n \notin remove /\ add[n] = 0) =>
                    (r.deps[n] = p.deps[n] /\ r.dev[n] = p.dev[n])

\* C17 witness: one package is named by remove and add and ends in
\* dependencies, another is named by update alone and was declared in
\* devDependencies only.
C17_Witness ==
    /\ pc = "merged"
    /\ input.pkg.exists
    /\ \E n, k \in Pkgs :
          /\ n \in input.manifest.dependencies.remove
          /\ input.manifest.dependencies.add[n] # 0
          /\ input.pkg.deps[n] # 0
          /\ input.pkg.deps[n] # input.manifest.dependencies.add[n]
          /\ output.once.deps[n] = input.manifest.dependencies.add[n]
          /\ input.manifest.dependencies.update[k] # 0
          /\ k \notin input.manifest.dependencies.remove
          /\ input.manifest.dependencies.add[k] = 0
          /\ input.pkg.deps[k] = 0 /\ input.pkg.dev[k] # 0
          /\ input.pkg.dev[k] # input.manifest.dependencies.update[k]

\* C18: isVersionLessThan is a strict weak order: no version is less than
\* itself, of two versions at most one is less than the other, less-than is
\* transitive, and so is "neither is less than the other".
C18_StrictWeakOrder ==
    pc = "compared" =>
        /\ \A a \in 1..3 : ~output[a][a]
        /\ \A a, b \in 1..3 : output[a][b] => ~output[b][a]
        /\ \A a, b, c \in 1..3 : (output[a][b] /\ output[b][c]) => output[a][c]
        /\ \A a, b, c \in 1..3 :
              (~output[a][b] /\ ~output[b][a] /\ ~output[b][c] /\ ~output[c][b]) =>
                  (~output[a][c] /\ ~output[c][a])

\* C18 witness: of three versions written differently, the first two are
\* not less than each other and both are less than the third.
C18_Witness ==
    /\ pc = "compared"
    /\ input[1] # input[2] /\ Len(input[1]) # Len(input[3])
    /\ ~output[1][2] /\ ~output[2][1]
    /\ output[2][3] /\ output[1][3]

\* the version's components, NaN read as 0, padded with zeros to n
Padded(v, n) ==
    [i \in 1..n |-> IF i <= Len(v) /\ v[i] # NonNumeric THEN v[i] ELSE 0]

\* at the first position where the padded sequences differ, v has the
\* smaller component
LexLess(v, w) ==
    LET n == IF Len(v) > Len(w) THEN Len(v) ELSE Len(w)
        pv == Padded(v, n)
        pw == Padded(w, n)
    IN \E i \in 1..n : pv[i] < pw[i] /\ \A j \in 1..(i - 1) : pv[j] = pw[j]

\* v and w differ at most by trailing zero or non-numeric segments
SameButTrailing(v, w) ==
    LET n == IF Len(v) > Len(w) THEN Len(v) ELSE Len(w)
    IN Padded(v, n) = Padded(w, n)

\* C19: isVersionLessThan(current, required) is true exactly when, at the
\* first position where the zero-padded component sequences differ,
\* current's component is the smaller; two versions that differ only by
\* trailing segments that are zero or non-numeric are not less than each
\* other.
C19_LexicographicOnPadded ==
    pc = "compared" =>
        \A a, b \in 1..3 :
            /\ output[a][b] = LexLess(input[a], input[b])
            /\ SameButTrailing(input[a], input[b]) =>
                  (~output[a][b] /\ ~output[b][a])

\* C19 witness: 1 against 1.beta and against 1.1: the first pair is not
\* ordered, the second is decided by the padded position.
C19_Witness ==
    /\ pc = "compared"
    /\ input = << <<1>>, <<1, NonNumeric>>, <<1, 1>> >>
    /\ ~output[1][2] /\ ~output[2][1]
    /\ output[1][3] /\ ~output[3][1]

\* the search paths a step is scanned under
SearchPathsOf(step) ==
    IF Len(step.searchPaths) > 0 THEN step.searchPaths ELSE <<SrcDir>>

\* the file f lies at or below the search path sp
Under(sp, f) == IsPrefix(sp, f)

\* some directory above f is named node_modules or .git
InsideSkipped(f) == \E k \in 1..(Len(f) - 1) : SkippedDir(f[k])

\* some directory above f and below the search path sp is named
\* node_modules or .git
SkippedBelow(sp, f) == \E k \in (Len(sp) + 1)..(Len(f) - 1) : SkippedDir(f[k])

\* the entries of the returned map that carry the title
EntriesTitled(result, title) == {i \in 1..Len(result) : result[i].title = title}

\* C20 as stated: the result has one entry per step title, empty for a step
\* without a pattern, and otherwise listing exactly the files that lie
\* under a search path of the step, have no node_modules or .git directory
\* above them and match the pattern.
C20_Original ==
    pc = "scanned" =>
        \A s \in 1..Len(input.migrations) :
            LET step == input.migrations[s]
                sps == SearchPathsOf(step)
            IN /\ Cardinality(EntriesTitled(output, step.title)) = 1
               /\ \A i \in EntriesTitled(output, step.title) :
                     IF step.pattern = NoPattern THEN output[i].matches = <<>>
                     ELSE SetOf(output[i].matches) =
                            {f \in FileUniverse :
                                /\ input.tree[f] # 0
                                /\ \E k \in 1..Len(sps) : Under(sps[k], f)
                                /\ ~InsideSkipped(f)
                                /\ Matches(step.pattern, input.tree[f])}

\* the step s is the last step of the list that carries its title
LastTitled(migrations, s) ==
    \A t \in (s + 1)..Len(migrations) : migrations[t].title # migrations[s].title

\* C20: the result has one entry per step title; the entry is that of the
\* last step carrying the title: empty for a step without a pattern, and
\* otherwise listing exactly the files that match the pattern and lie under
\* a search path of the step with no node_modules or .git directory between
\* that search path and the file.
C20_ScanListsMatchingFiles ==
    pc = "scanned" =>
        \A s \in 1..Len(input.migrations) :
            LET step == input.migrations[s]
                sps == SearchPathsOf(step)
            IN /\ Cardinality(EntriesTitled(output, step.title)) = 1
               /\ LastTitled(input.migrations, s) =>
                     \A i \in EntriesTitled(output, step.title) :
                        IF step.pattern = NoPattern THEN output[i].matches = <<>>
                        ELSE SetOf(output[i].matches) =
                               {f \in FileUniverse :
                                   /\ input.tree[f] # 0
                                   /\ \E k \in 1..Len(sps) :
                                         Under(sps[k], f) /\ ~SkippedBelow(sps[k], f)
                                   /\ Matches(step.pattern, input.tree[f])}

\* C20 witness: every file of the project holds a call of oldApi; the first
\* step is scanned under the default path and lists the two files of src/
\* outside node_modules, the second step has no pattern and an empty list.
C20_Witness ==
    /\ pc = "scanned"
    /\ \A f \in FileUniverse : input.tree[f] = 2
    /\ Len(output) = 2
    /\ input.migrations[1].searchPaths = <<>>
    /\ output[1].matches = <<AFile, SubFile>>
    /\ input.migrations[2].pattern = NoPattern
    /\ output[2].matches = <<>>

\* C21: a run that passed the no-op check and ended without a decline and
\* without an exception has run the migration scanner on the project tree
\* as the run leaves it, and holds a match list for every migration step.
C21_ScanReportedOnEveryRun ==
    (pc = "done" /\ classified /\ outcome \notin {"declined", "threw"}) =>
        /\ scanned
        /\ matchResults = scanForMigrationPatterns(proj, manifest.migrations)

\* C22: when the scan of a run is due (Report, or Confirm in a dry run) and
\* the process is not killed, the scan returns and the run goes on to its
\* cleanup; there, unless it is killed, it finishes with exit code 0 and
\* without its temporary directory, unless the removal of that directory
\* failed.
C22_ScanNeverFatal ==
    [][/\ ((pc = "report" \/ (pc = "confirm" /\ dryRun))
               /\ pc' # "interrupted") =>
             (scanned' /\ pc' = IF dryRun THEN "dryScanned" ELSE "cleanup")
       /\ (pc \in {"cleanup", "dryScanned"} /\ pc' # "interrupted") =>
             (pc' = "done" /\ scanned' /\ exitCode' = 0
                 /\ (rmFailed' \/ ~tmpExists'))]_vars

\* the manifest names no package in update, remove or add
NoDependencyNames ==
    /\ \A n \in Pkgs : manifest.dependencies.update[n] = 0
    /\ manifest.dependencies.remove = {}
    /\ \A n \in Pkgs : manifest.dependencies.add[n] = 0

\* C23: when the classifier has run, no path is classified added or
\* modified and the manifest names no dependency, the run is in the
\* metadata-only branch, or over with exit code 0, or killed. The project
\* files and package.json are as the run found them. .velocity.json is as
\* the run found it, or as the run found it but for the manifest version
\* and the date of the update: it is the former in a dry run and up to the
\* write of the marker, and the latter from that write on and when a run
\* that is no dry run returns or is killed in its cleanup.
C23_MetadataOnlyUpgrade ==
    (classified /\ NoDependencyNames /\ changedDiffs(diffs) = <<>>) =>
        LET written == [start.cfgFile EXCEPT !.version = manifest.version,
                                             !.updatedAt = Today]
        IN /\ pc \in {"metaOnly", "metaWritten", "done", "interrupted"}
           /\ pc = "done" => (outcome = "metadataOnly" /\ exitCode = 0)
           /\ proj = start.proj
           /\ pkg = start.pkg
           /\ cfgFile \in {start.cfgFile, written}
           /\ (dryRun \/ pc = "metaOnly"
                   \/ (pc = "interrupted" /\ outcome = "interruptedDiff")) =>
                 cfgFile = start.cfgFile
           /\ (~dryRun /\ (pc \in {"metaWritten", "done"}
                   \/ (pc = "interrupted"
                          /\ outcome \in {"interruptedAfterMarker",
                                           "interruptedAfterCleanup"}))) =>
                 cfgFile = written

\* C23 witness: a metadata-only run has returned, over a project that has
\* a file the template also has, and a package.json; the version marker
\* has moved.
C23_Witness ==
    /\ pc = "done" /\ outcome = "metadataOnly"
    /\ classified /\ ChangedPaths = {} /\ NoDependencyNames
    /\ \E f \in FileUniverse : proj[f] # 0 /\ tmpl.tree[f] # 0
    /\ pkg.exists
    /\ cfgFile.version # start.cfgFile.version

\* C24: a run that finds no .velocity.json is over at Init with exit code 1:
\* it asks nothing, downloads nothing, creates no temporary directory and
\* leaves the project as it found it.
C24_NotAProject ==
    ~start.cfgFile.present =>
        /\ pc \in {"init", "done"}
        /\ pc = "done" => (outcome = "notProject" /\ exitCode = 1)
        /\ dl = "none" /\ ~tmpCreated /\ ~tmpExists
        /\ Untouched

\* C24 witness: such a run has ended, in a project with files and with
\* --yes not given.
C24_Witness ==
    /\ ~start.cfgFile.present
    /\ pc = "done"
    /\ ~yes
    /\ \E f \in FileUniverse : proj[f] # 0

\* C25: a run over a template without a manifest goes on past ManifestLoad
\* with the fallback manifest (the hardcoded safe list, nothing protected,
\* no dependency change, no migration, minCliVersion 1.0.0, the version of
\* the template's package.json or else the project's), passes the version
\* gate and never ends in an exception; when the template's package.json
\* gives no version the run ends at the no-op check with nothing written.
C25_FallbackManifest ==
    (dl = "ok" /\ tmpl.mstate = "absent" /\ pc # "manifestLoad") =>
        /\ manifest =
             [version |-> IF tmpl.pkgVersion # NoVersion THEN tmpl.pkgVersion
                          ELSE start.cfgFile.version,
              minCliVersion |-> <<1, 0, 0>>,
              files |-> [safe |-> FALLBACK_SAFE_FILES, protected |-> <<>>],
              dependencies |-> [update |-> NoDeps, remove |-> {}, add |-> NoDeps],
              migrations |-> <<>>]
        /\ outcome \notin {"threw", "engineTooOld"}
        /\ tmpl.pkgVersion = NoVersion =>
              /\ pc \in {"versionGate", "noopCheck", "done"}
              /\ pc = "done" => outcome = "noop"
              /\ Untouched

\* the orchestrator state of spec section 4.6 a statement belongs to, by
\* its place in the sequence; the last one stands for a run that is over
Stage(p) ==
    CASE p = "init" -> 1
      [] p \in {"gitCheck", "gitPrompt"} -> 2
      [] p \in {"download", "downloading"} -> 3
      [] p = "manifestLoad" -> 4
      [] p = "versionGate" -> 5
      [] p = "noopCheck" -> 6
      [] p \in {"diff", "metaOnly", "metaWritten"} -> 7
      [] p \in {"confirm", "confirmPrompt", "dryScanned"} -> 8
      [] p \in {"copy", "merge", "writeConfig"} -> 9
      [] p = "report" -> 10
      [] p = "cleanup" -> 11
      [] p \in {"done", "interrupted"} -> 12

\* the place of a statement inside its orchestrator state
Position(p) ==
    CASE p \in {"gitPrompt", "downloading", "metaOnly", "confirmPrompt", "merge"} -> 2
      [] p \in {"metaWritten", "dryScanned", "writeConfig"} -> 3
      [] OTHER -> 1

Terminal == {"done", "interrupted"}

\* C26: a step of a run stays in its orchestrator state and moves forward
\* there, or moves to the next state of the sequence, or ends the run; a
\* new run starts at Init. Every run that has started ends.
C26_OrderAndTermination ==
    /\ [][\/ pc' = "init" /\ pc \in Terminal /\ runs' = runs + 1
          \/ pc' \in Terminal
          \/ Stage(pc') = Stage(pc) + 1
          \/ /\ Stage(pc') = Stage(pc)
             /\ \/ Position(pc') > Position(pc)
                \/ pc = "downloading" /\ pc' = pc /\ ~tmpExists /\ tmpExists'
                \/ pc = "copy" /\ pc' = "copy" /\ ci' = ci + 1]_vars
    /\ (pc = "init") ~> (pc \in Terminal)

\* C26 witness: a second run has gone through every state and is over.
C26_Witness ==
    /\ runs = 2
    /\ pc = "done" /\ outcome = "applied" /\ scanned
    /\ \E i \in 1..Len(diffs) : diffs[i].status = "modified"

\* C27: two processes that have both named their temporary directory have
\* named different ones, and while a process reads its directory the
\* directory holds what that process downloaded.
C27_DistinctTempDirs ==
    /\ (tempDir[1] # NoDir /\ tempDir[2] # NoDir) => tempDir[1] # tempDir[2]
    /\ \A r \in Processes : ppc[r] = "read" => tmpfs[tempDir[r]] = {r}

\* the exit paths on which the run writes no metadata
NoWritePaths ==
    {"notProject", "gitDeclined", "downloadFailed", "engineTooOld", "noop",
     "dryRun", "declined"}

\* C28: a step that changes .velocity.json is the write of the
\* metadata-only branch of Diff or the write of Apply, outside a dry run;
\* before it the file is as the run found it, after it the file differs
\* from that in the version, now the manifest's, and in updatedAt, now the
\* day of the run, and the run goes on to the return of the metadata-only
\* branch or to Report. A run that ended on another path left the file as
\* it found it.
C28_MetadataWrittenOnce ==
    /\ [][cfgFile' # cfgFile =>
            /\ ~dryRun
            /\ \/ pc = "metaOnly" /\ pc' = "metaWritten"
               \/ pc = "writeConfig" /\ pc' = "report"
            /\ cfgFile = start.cfgFile
            /\ cfgFile' = [start.cfgFile EXCEPT !.version = manifest.version,
                                                !.updatedAt = Today]]_vars
    /\ []((pc = "done" /\ outcome \in NoWritePaths) => cfgFile = start.cfgFile)

\* C28 witness: a run ended after Apply wrote the metadata of a project
\* created on an earlier day.
C28_Witness ==
    /\ pc = "done" /\ outcome = "applied"
    /\ cfgFile.version = manifest.version /\ cfgFile.version # start.cfgFile.version
    /\ cfgFile.updatedAt = Today /\ cfgFile.createdAt # Today
    /\ cfgFile.features = start.cfgFile.features

\* C29: once Apply is over, the classifier run again on the project, the
\* same template and the same manifest finds no path added or modified;
\* the run that follows a run that ended after Apply does not get past the
\* no-op check, ends there unless the git prompt, the download or a kill
\* during the download ended it before, and leaves the project as it found
\* it.
C29_SecondRunIsNoop ==
    /\ (pc \in {"report", "cleanup"} \/ (pc = "done" /\ outcome = "applied")) =>
          LET again == diffProjects(proj, tmpl.tree, manifest)
          IN \A i \in 1..Len(again) : again[i].status = "unchanged"
    /\ prevOutcome = "applied" =>
          /\ Stage(pc) <= 6 \/ pc \in {"done", "interrupted"}
          /\ pc = "done" => outcome \in {"gitDeclined", "downloadFailed", "noop"}
          /\ pc = "interrupted" => outcome = "interruptedDownload"
          /\ Untouched

\* C29 witness: the run after an Apply that changed files ended at the
\* no-op check.
C29_Witness ==
    /\ prevOutcome = "applied"
    /\ pc = "done" /\ outcome = "noop"
    /\ proj # orig.proj

\* C30: in the match list the scan returns for a step no file is listed
\* twice, whatever the search paths of the step.
C30_NoRepeatedMatches ==
    pc = "scanned" =>
        \A i \in 1..Len(output) : NoRepeats(output[i].matches)

====
